---------------------------- MODULE Spec2Model ----------------------------
(***************************************************************************)
(* Model of the MedGPT-X image feature extraction and heuristic            *)
(* classification engine: the "clinical" pipeline of                       *)
(* src/utils/clinicalImageAnalysis.ts and the "perfect" pipeline whose     *)
(* code follows the App component in src/App.tsx.                          *)
(*                                                                         *)
(* Numbers.  The code computes in IEEE doubles; the model computes in      *)
(* exact rationals [n |-> numerator, d |-> denominator].  d = 0 stands for *)
(* the result of a division by zero: NaN when n = 0, +Infinity when n > 0. *)
(* Modality scores are sums of products of two-decimal constants and are   *)
(* kept as integers in units of 1/10000.  The contrast (a square root) is  *)
(* kept as its square, contrast2.                                          *)
(***************************************************************************)
EXTENDS Integers, Sequences, FiniteSets

VARIABLES
    profile,      \* "clinical" | "perfect": which pipeline analyses the file
    filename,     \* file.name, a sequence of one-character strings
    width,        \* img.width
    height,       \* img.height
    pixels,       \* the RGBA buffer, one <<r, g, b>> per pixel (alpha is never read)
    pc,           \* "idle" | "pending" | "extracted" | "resolved" | "rejected"
    analyses,     \* the extractor outputs handed to the ensemble classifier
    classification, \* what classifyMedicalImage* returned
    result,       \* what generate*Diagnosis returned
    settled,      \* the calls of resolve and reject made so far, in order, each
                  \* with what the run handed over
    automaticBatching, \* whether React commits the state updates of one task
                  \* together (createRoot) or after each one (legacy root)
    uploadedFile, \* App state: None or [file, preview, type]
    diagnosisData, \* App state: None or the diagnosis record
    isAnalyzing,  \* App state
    awaiting,     \* handleFileUpload is suspended at its await
    messages,     \* ChatInterface state: the message list
    inputValue,   \* ChatInterface state: the text in the input box
    isTyping,     \* ChatInterface state
    timers,       \* the response timers set and not yet fired, by message id
    sent          \* number of user messages sent so far: the source of ids

\* the state of analyzeMedicalImageClinical's promise and pipeline
imageVars == <<profile, filename, width, height, pixels, pc, analyses, classification, result, settled>>

\* the state of the App and ChatInterface components
appVars == <<automaticBatching, uploadedFile, diagnosisData, isAnalyzing, awaiting,
             messages, inputValue, isTyping, timers, sent>>

vars == <<imageVars, appVars>>

-----------------------------------------------------------------------------
(* Bounds of the model *)

MaxW == 7
MaxH == 5
\* the number of times the same file is analysed
MaxRuns == 2

-----------------------------------------------------------------------------
(* Exact rationals standing for the code's doubles *)

Q(n, d) == [n |-> n, d |-> d]

IsNaN(q) == q.d = 0 /\ q.n = 0

RECURSIVE GCD(_, _)
GCD(a, b) == IF b = 0 THEN a ELSE GCD(b, a % b)

\* q > a/b, q >= a/b, q < a/b, q <= a/b for b > 0, by cross-multiplication (the
\* common factor of b and q.d is cancelled first); every comparison with NaN is
\* false, and +Infinity is above every a/b
Gt(q, a, b) == IF q.d = 0 THEN q.n > 0
               ELSE LET g == GCD(b, q.d) IN q.n * (b \div g) > a * (q.d \div g)
Ge(q, a, b) == IF q.d = 0 THEN q.n > 0
               ELSE LET g == GCD(b, q.d) IN q.n * (b \div g) >= a * (q.d \div g)
Lt(q, a, b) == IF q.d = 0 THEN FALSE
               ELSE LET g == GCD(b, q.d) IN q.n * (b \div g) < a * (q.d \div g)
Le(q, a, b) == IF q.d = 0 THEN FALSE
               ELSE LET g == GCD(b, q.d) IN q.n * (b \div g) <= a * (q.d \div g)

IsZero(q) == q.d > 0 /\ q.n = 0
IsOne(q) == q.d > 0 /\ q.n = q.d
In01(q) == q.d > 0 /\ 0 <= q.n /\ q.n <= q.d

Abs(i) == IF i < 0 THEN -i ELSE i
Max(a, b) == IF a >= b THEN a ELSE b
Min(a, b) == IF a <= b THEN a ELSE b

RECURSIVE SumSeq(_)
SumSeq(s) == IF s = <<>> THEN 0 ELSE Head(s) + SumSeq(Tail(s))

\* the values lo, lo+step, ... below hi, in loop order: for (v = lo; v < hi; v += step)
RECURSIVE Loop(_, _, _)
Loop(lo, hi, step) == IF lo < hi THEN <<lo>> \o Loop(lo + step, hi, step) ELSE <<>>

-----------------------------------------------------------------------------
(* Pixel access *)

\* pixels.length / 4
TotalPixels(px) == Len(px)

\* the pixel whose first byte is at byte index 4*k
Px(px, k) == px[k + 1]

\* r + g + b of pixel k; the extractors divide it by 3
Sum3(px, k) == Px(px, k)[1] + Px(px, k)[2] + Px(px, k)[3]

\* Math.round((r + g + b) / 3): the thirds round to the nearest integer
RoundedBrightness(px, k) == (Sum3(px, k) + 1) \div 3

-----------------------------------------------------------------------------
(* Visual feature extractor *)

DarkThresholdClinical == 50
DarkThresholdPerfect == 60
BrightThreshold == 200
EdgeThresholdClinical == 30
EdgeThresholdPerfect == 25

\* the non-empty bins of the 256-bin brightness histogram
Histogram(px) ==
    LET bs == {RoundedBrightness(px, k) : k \in 0..(TotalPixels(px) - 1)}
    IN  [b \in bs |-> Cardinality({k \in 0..(TotalPixels(px) - 1) : RoundedBrightness(px, k) = b})]

RECURSIVE HistSum(_, _, _)
\* sum over the bins bs of count * index^e
HistSum(h, bs, e) ==
    IF bs = {} THEN 0
    ELSE LET b == CHOOSE x \in bs : TRUE
         IN  h[b] * (IF e = 0 THEN 1 ELSE IF e = 1 THEN b ELSE b * b) + HistSum(h, bs \ {b}, e)

\* a contrast whose variance is taken about 0 instead of about the mean
ContrastAboutZero(histogram) ==
    LET total == HistSum(histogram, DOMAIN histogram, 0)
        S2 == HistSum(histogram, DOMAIN histogram, 2)
    IN  IF total = 0 THEN Q(0, 1)
        ELSE IF S2 > 16384 * total THEN Q(1, 1) ELSE Q(S2, 16384 * total)

\* calculateClinicalContrast / calculateContrastPerfect, squared:
\* (Math.min(stdDev / 128, 1))^2, with stdDev^2 = (total * S2 - S1^2) / total^2
calculateClinicalContrast(histogram) ==
    LET total == HistSum(histogram, DOMAIN histogram, 0)
        S1 == HistSum(histogram, DOMAIN histogram, 1)
        S2 == HistSum(histogram, DOMAIN histogram, 2)
        n == total * S2 - S1 * S1
        d == 16384 * total * total
    IN  IF total = 0 THEN Q(0, 1)
        ELSE IF n > d THEN Q(1, 1) ELSE Q(n, d)

\* a pass whose medium band is not an else branch: it takes every pixel that
\* is not dark, the bright ones included
PixelPassOverlapping(px, darkThreshold, edgeThreshold) ==
    LET N == TotalPixels(px)
        K == 0..(N - 1)
        br(k) == RoundedBrightness(px, k)
    IN  [ totalBrightness |-> SumSeq([i \in 1..N |-> br(i - 1)]),
          darkPixels   |-> Cardinality({k \in K : br(k) < darkThreshold}),
          brightPixels |-> Cardinality({k \in K : ~(br(k) < darkThreshold) /\ br(k) > BrightThreshold}),
          mediumPixels |-> Cardinality({k \in K : ~(br(k) < darkThreshold)}),
          edgeCount    |-> Cardinality({k \in K : k + 1 < N
                                /\ Abs(Px(px, k)[1] - Px(px, k + 1)[1]) > edgeThreshold}),
          totalPixels  |-> N ]

\* the single pass over the buffer: for (i = 0; i < pixels.length; i += 4)
PixelPass(px, darkThreshold, edgeThreshold) ==
    LET N == TotalPixels(px)
        K == 0..(N - 1)
        br(k) == RoundedBrightness(px, k)
    IN  [ totalBrightness |-> SumSeq([i \in 1..N |-> br(i - 1)]),
          darkPixels   |-> Cardinality({k \in K : br(k) < darkThreshold}),
          brightPixels |-> Cardinality({k \in K : ~(br(k) < darkThreshold) /\ br(k) > BrightThreshold}),
          mediumPixels |-> Cardinality({k \in K : ~(br(k) < darkThreshold) /\ ~(br(k) > BrightThreshold)}),
          edgeCount    |-> Cardinality({k \in K : k + 1 < N
                                /\ Abs(Px(px, k)[1] - Px(px, k + 1)[1]) > edgeThreshold}),
          totalPixels  |-> N ]

\* the measurements both profiles return
VisualMeasures(px, darkThreshold, edgeThreshold) ==
    LET p == PixelPass(px, darkThreshold, edgeThreshold)
    IN  [ brightness  |-> Q(p.totalBrightness, p.totalPixels),
          contrast2   |-> calculateClinicalContrast(Histogram(px)),
          edgeDensity |-> Q(p.edgeCount, p.totalPixels),
          darkRatio   |-> Q(p.darkPixels, p.totalPixels),
          brightRatio |-> Q(p.brightPixels, p.totalPixels),
          mediumRatio |-> Q(p.mediumPixels, p.totalPixels) ]

\* contrast > c/10, contrast < c/10, contrast <= c/10, on the squared contrast
ContrastGt(v, c) == Gt(v.contrast2, c * c, 100)
ContrastLt(v, c) == Lt(v.contrast2, c * c, 100)
ContrastLe(v, c) == Le(v.contrast2, c * c, 100)

\* indicators whose pneumonia test admits darkRatio up to 0.8, which the
\* atelectasis and normal_chest tests admit too
PathologyIndicatorsOverlapping(v) ==
    [ pneumonia        |-> Lt(v.darkRatio, 8, 10) /\ ContrastGt(v, 4),
      atelectasis      |-> Gt(v.darkRatio, 7, 10) /\ Gt(v.edgeDensity, 3, 10),
      cardiomegaly     |-> Gt(v.mediumRatio, 4, 10) /\ Gt(v.brightness, 100, 1),
      pleural_effusion |-> Gt(v.darkRatio, 8, 10) /\ ContrastLt(v, 3),
      normal_chest     |-> Gt(v.darkRatio, 6, 10) /\ Lt(v.darkRatio, 8, 10) /\ ContrastGt(v, 3) ]

\* pathologyIndicators of performAdvancedVisualAnalysis
PathologyIndicators(v) ==
    [ pneumonia        |-> Lt(v.darkRatio, 6, 10) /\ ContrastGt(v, 4),
      atelectasis      |-> Gt(v.darkRatio, 7, 10) /\ Gt(v.edgeDensity, 3, 10),
      cardiomegaly     |-> Gt(v.mediumRatio, 4, 10) /\ Gt(v.brightness, 100, 1),
      pleural_effusion |-> Gt(v.darkRatio, 8, 10) /\ ContrastLt(v, 3),
      normal_chest     |-> Gt(v.darkRatio, 6, 10) /\ Lt(v.darkRatio, 8, 10) /\ ContrastGt(v, 3) ]

\* clinicalFeatures of performAdvancedVisualAnalysis; the perfect profile returns
\* the same flags at the top level of its record
BrightnessContrastFlags(v) ==
    [ isDark          |-> Lt(v.brightness, 80, 1),
      isBright        |-> Gt(v.brightness, 180, 1),
      isMedium        |-> Ge(v.brightness, 80, 1) /\ Le(v.brightness, 180, 1),
      hasHighContrast |-> ContrastGt(v, 6),
      hasMediumContrast |-> ContrastGt(v, 3) /\ ContrastLe(v, 6),
      hasLowContrast  |-> ContrastLe(v, 3),
      isHighDetail    |-> Gt(v.edgeDensity, 4, 10),
      isMediumDetail  |-> Gt(v.edgeDensity, 2, 10) /\ Le(v.edgeDensity, 4, 10),
      isLowDetail     |-> Le(v.edgeDensity, 2, 10) ]

\* the record a profile's visual extractor returns, from its measurements
VisualFeatures(m) ==
    [ brightness |-> m.brightness, contrast2 |-> m.contrast2, edgeDensity |-> m.edgeDensity,
      darkRatio |-> m.darkRatio, brightRatio |-> m.brightRatio, mediumRatio |-> m.mediumRatio,
      pathologyIndicators |-> PathologyIndicators(m),
      clinicalFeatures |-> BrightnessContrastFlags(m) ]

performAdvancedVisualAnalysis(px, w, h) ==
    VisualFeatures(VisualMeasures(px, DarkThresholdClinical, EdgeThresholdClinical))

analyzeVisualCharacteristicsPerfect(px, w, h) ==
    VisualFeatures(VisualMeasures(px, DarkThresholdPerfect, EdgeThresholdPerfect))

-----------------------------------------------------------------------------
(* Structural feature extractor *)

StrideClinical == 2
StridePerfect == 3
CenterMassStride == 2

\* the brightness^2-weighted sums of the center-of-mass loop, in units of 1/9
\* (mass = ((r + g + b) / 3)^2): <<sum of x * mass, sum of y * mass, sum of mass>>
CenterMassSums(px, w, h) ==
    LET pts == {<<x, y>> \in (0..(w - 1)) \X (0..(h - 1)) :
                    x % CenterMassStride = 0 /\ y % CenterMassStride = 0
                    /\ y * w + x < TotalPixels(px)}
        mass(pt) == Sum3(px, pt[2] * w + pt[1]) * Sum3(px, pt[2] * w + pt[1])
        ptSeq == [i \in 1..(w * h) |-> <<(i - 1) % w, (i - 1) \div w>>]
    IN  << SumSeq([i \in 1..(w * h) |-> IF ptSeq[i] \in pts THEN ptSeq[i][1] * mass(ptSeq[i]) ELSE 0]),
           SumSeq([i \in 1..(w * h) |-> IF ptSeq[i] \in pts THEN ptSeq[i][2] * mass(ptSeq[i]) ELSE 0]),
           SumSeq([i \in 1..(w * h) |-> IF ptSeq[i] \in pts THEN mass(ptSeq[i]) ELSE 0]) >>

\* a centre of mass left in pixel coordinates, not divided by width and height
CenterMassInPixels(px, w, h) ==
    LET s == CenterMassSums(px, w, h)
    IN  IF s[3] > 0 THEN [x |-> Q(s[1], s[3]), y |-> Q(s[2], s[3])]
        ELSE [x |-> Q(0, 1), y |-> Q(0, 1)]

\* centerMass: centerMassX / width and centerMassY / height, the sums divided
\* by totalMass only if (totalMass > 0)
CenterMass(px, w, h) ==
    LET s == CenterMassSums(px, w, h)
    IN  IF s[3] > 0 THEN [x |-> Q(s[1], s[3] * w), y |-> Q(s[2], s[3] * h)]
        ELSE [x |-> Q(0, w), y |-> Q(0, h)]

\* similarity = Math.max(0, 255 - diff) / 255 of two pixels, in units of 1/765
\* (diff is |sum3 - sum3| / 3)
Similarity(px, i, j) == Max(0, 765 - Abs(Sum3(px, i) - Sum3(px, j)))

\* a symmetry score that pairs column x with column width - x, one column off
\* the mirror column
BilateralSymmetryShifted(px, w, h, stride) ==
    LET centerX == w \div 2
        pairs == {<<x, y>> \in (0..(centerX - 1)) \X (0..(h - 1)) :
                     x % stride = 0 /\ y % stride = 0
                     /\ y * w + x < TotalPixels(px) /\ y * w + (w - x) < TotalPixels(px)}
        ptSeq == [i \in 1..(w * h) |-> <<(i - 1) % w, (i - 1) \div w>>]
        symmetryScore == SumSeq([i \in 1..(w * h) |->
                            IF ptSeq[i] \in pairs
                            THEN Similarity(px, ptSeq[i][2] * w + ptSeq[i][1],
                                            ptSeq[i][2] * w + (w - ptSeq[i][1]))
                            ELSE 0])
        comparisons == Cardinality(pairs)
    IN  IF comparisons > 0 THEN Q(symmetryScore, 765 * comparisons) ELSE Q(0, 1)

\* calculateBilateralSymmetry / calculateSymmetryPerfect with the profile's stride
BilateralSymmetry(px, w, h, stride) ==
    LET centerX == w \div 2
        pairs == {<<x, y>> \in (0..(centerX - 1)) \X (0..(h - 1)) :
                     x % stride = 0 /\ y % stride = 0
                     /\ y * w + x < TotalPixels(px) /\ y * w + (w - 1 - x) < TotalPixels(px)}
        ptSeq == [i \in 1..(w * h) |-> <<(i - 1) % w, (i - 1) \div w>>]
        symmetryScore == SumSeq([i \in 1..(w * h) |->
                            IF ptSeq[i] \in pairs
                            THEN Similarity(px, ptSeq[i][2] * w + ptSeq[i][1],
                                            ptSeq[i][2] * w + (w - 1 - ptSeq[i][1]))
                            ELSE 0])
        comparisons == Cardinality(pairs)
    IN  IF comparisons > 0 THEN Q(symmetryScore, 765 * comparisons) ELSE Q(0, 1)

\* calculateVerticalSymmetry / calculateVerticalSymmetryPerfect with the profile's stride
VerticalSymmetry(px, w, h, stride) ==
    LET centerY == h \div 2
        pairs == {<<x, y>> \in (0..(w - 1)) \X (0..(centerY - 1)) :
                     x % stride = 0 /\ y % stride = 0
                     /\ y * w + x < TotalPixels(px) /\ (h - 1 - y) * w + x < TotalPixels(px)}
        ptSeq == [i \in 1..(w * h) |-> <<(i - 1) % w, (i - 1) \div w>>]
        symmetryScore == SumSeq([i \in 1..(w * h) |->
                            IF ptSeq[i] \in pairs
                            THEN Similarity(px, ptSeq[i][2] * w + ptSeq[i][1],
                                            (h - 1 - ptSeq[i][2]) * w + ptSeq[i][1])
                            ELSE 0])
        comparisons == Cardinality(pairs)
    IN  IF comparisons > 0 THEN Q(symmetryScore, 765 * comparisons) ELSE Q(0, 1)

calculateBilateralSymmetry(px, w, h) == BilateralSymmetry(px, w, h, StrideClinical)
calculateVerticalSymmetry(px, w, h) == VerticalSymmetry(px, w, h, StrideClinical)
calculateSymmetryPerfect(px, w, h) == BilateralSymmetry(px, w, h, StridePerfect)
calculateVerticalSymmetryPerfect(px, w, h) == VerticalSymmetry(px, w, h, StridePerfect)

\* Math.abs(aspectRatio - 1) < 0.2 and < 0.15.  Strictly between the two ends
\* the double comparison agrees with the exact one; at the ends it does not:
\* in doubles |0.8 - 1| and |1.2 - 1| are 0.19999999999999996 (< 0.2) and
\* |1.15 - 1| is 0.1499999999999999 (< 0.15), while |0.85 - 1| is
\* 0.15000000000000002.
NearSquare20(ar) == Ge(ar, 8, 10) /\ Le(ar, 12, 10)
NearSquare15(ar) == Gt(ar, 85, 100) /\ Le(ar, 115, 100)

\* the record analyzeAnatomicalStructure returns, from its measurements
StructuralFeatures(aspectRatio, centerMass, bilateralSymmetry, verticalSymmetry) ==
    [ aspectRatio |-> aspectRatio,
      centerMass |-> centerMass,
      bilateralSymmetry |-> bilateralSymmetry,
      verticalSymmetry |-> verticalSymmetry,
      anatomicalFeatures |->
        [ isChestXray   |-> Gt(aspectRatio, 12, 10) /\ Lt(aspectRatio, 18, 10),
          isBrainMRI    |-> NearSquare20(aspectRatio) /\ Gt(bilateralSymmetry, 7, 10),
          isCTScan      |-> NearSquare15(aspectRatio),
          isSpineXray   |-> Lt(aspectRatio, 6, 10),
          isMammography |-> Lt(aspectRatio, 8, 10) /\ Gt(aspectRatio, 4, 10) ],
      clinicalPositioning |->
        [ hasGoodSymmetry     |-> Gt(bilateralSymmetry, 7, 10),
          hasClinicalSymmetry |-> Gt(bilateralSymmetry, 4, 10) /\ Le(bilateralSymmetry, 7, 10),
          hasPoorSymmetry     |-> Le(bilateralSymmetry, 4, 10) ] ]

analyzeAnatomicalStructure(px, w, h) ==
    StructuralFeatures(Q(w, h), CenterMass(px, w, h),
                       calculateBilateralSymmetry(px, w, h), calculateVerticalSymmetry(px, w, h))

\* the record analyzeImageStructurePerfect returns, from its measurements
StructuralFeaturesPerfect(aspectRatio, centerMass, symmetry, verticalSymmetry) ==
    [ aspectRatio |-> aspectRatio,
      centerMass |-> centerMass,
      symmetry |-> symmetry,
      verticalSymmetry |-> verticalSymmetry,
      isSquare |-> NearSquare15(aspectRatio),
      isWide |-> Gt(aspectRatio, 13, 10),
      isTall |-> Lt(aspectRatio, 77, 100),
      isRectangular |-> Gt(aspectRatio, 115, 100) \/ Lt(aspectRatio, 85, 100),
      hasGoodSymmetry |-> Gt(symmetry, 7, 10),
      hasMediumSymmetry |-> Gt(symmetry, 4, 10) /\ Le(symmetry, 7, 10),
      hasPoorSymmetry |-> Le(symmetry, 4, 10) ]

analyzeImageStructurePerfect(px, w, h) ==
    StructuralFeaturesPerfect(Q(w, h), CenterMass(px, w, h),
                              calculateSymmetryPerfect(px, w, h),
                              calculateVerticalSymmetryPerfect(px, w, h))

-----------------------------------------------------------------------------
(* Texture feature extractor *)

\* the 8-neighbourhood offsets, in the order of the neighbors array
Neighbors == << <<-1, -1>>, <<-1, 0>>, <<-1, 1>>, <<0, -1>>, <<0, 1>>, <<1, -1>>, <<1, 0>>, <<1, 1>> >>

\* the sampled centres: for (y = 2; y < height - 2; y += stride)
\*                        for (x = 2; x < width - 2; x += stride)
\* kept when centerIndex < pixels.length - 4, i.e. the centre is not the last pixel
TextureCenters(px, w, h, stride) ==
    LET xs == Loop(2, w - 2, stride)
        ys == Loop(2, h - 2, stride)
    IN  {<<xs[i], ys[j]>> : i \in DOMAIN xs, j \in DOMAIN ys} \cap
        {c \in (0..(w - 1)) \X (0..(h - 1)) : c[2] * w + c[1] < TotalPixels(px) - 1}

\* the |centerBrightness - neighborBrightness| of a centre, in units of 1/3, for
\* the neighbours with 0 <= neighborIndex < pixels.length - 2.  Every neighbour
\* of a sampled centre lies inside a width * height buffer, so all 8 are kept.
NeighborDiffs(px, w, c) ==
    [i \in 1..8 |->
        LET j == (c[2] + Neighbors[i][2]) * w + (c[1] + Neighbors[i][1])
        IN  IF j >= 0 /\ j < TotalPixels(px)
            THEN Abs(Sum3(px, c[2] * w + c[1]) - Sum3(px, j))
            ELSE 0]

RECURSIVE CenterSums(_, _, _, _)
\* over the centres cs: <<sum of neighborDiffs (units of 1/3),
\*                        sum of 8 * variance     (units of 1/576)>>
\* where variance = sum of (diff - neighborDiffs / 8)^2 / 8
CenterSums(px, w, cs, acc) ==
    IF cs = {} THEN acc
    ELSE LET c == CHOOSE x \in cs : TRUE
             e == NeighborDiffs(px, w, c)
             E == SumSeq(e)
             V == SumSeq([i \in 1..8 |-> (8 * e[i] - E) * (8 * e[i] - E)])
         IN  CenterSums(px, w, cs \ {c}, <<acc[1] + E, acc[2] + V>>)

\* roughness and localVariance: the per-centre values averaged over the centres,
\* 0 when there is none
TextureMeasures(px, w, h, stride) ==
    LET cs == TextureCenters(px, w, h, stride)
        comparisons == Cardinality(cs)
        s == CenterSums(px, w, cs, <<0, 0>>)
    IN  IF comparisons > 0
        THEN [roughness |-> Q(s[1], 24 * comparisons), localVariance |-> Q(s[2], 4608 * comparisons)]
        ELSE [roughness |-> Q(0, 1), localVariance |-> Q(0, 1)]

\* Math.max(0, 255 - roughness) / 255
Uniformity(roughness) == Q(Max(0, 255 * roughness.d - roughness.n), 255 * roughness.d)

\* (roughness + localVariance) / 200 without the Math.min
TextureComplexityUnclamped(roughness, localVariance) ==
    LET l == (roughness.d \div GCD(roughness.d, localVariance.d)) * localVariance.d
    IN  Q(roughness.n * (l \div roughness.d) + localVariance.n * (l \div localVariance.d), 200 * l)

\* Math.min((roughness + localVariance) / 200, 1.0)
TextureComplexity(roughness, localVariance) ==
    LET l == (roughness.d \div GCD(roughness.d, localVariance.d)) * localVariance.d
        n == roughness.n * (l \div roughness.d) + localVariance.n * (l \div localVariance.d)
        d == 200 * l
    IN  IF n > d THEN Q(1, 1) ELSE Q(n, d)

\* the record performTextureAnalysis returns, from roughness and localVariance
TextureFeatures(roughness, localVariance) ==
    LET uniformity == Uniformity(roughness)
    IN  [ roughness |-> roughness,
          uniformity |-> uniformity,
          localVariance |-> localVariance,
          patterns |->
              (IF Gt(roughness, 60, 1) THEN <<"high-detail", "complex-texture", "possible-pathology">>
               ELSE IF Gt(roughness, 30, 1) THEN <<"medium-detail", "moderate-texture", "normal-variation">>
               ELSE <<"smooth", "low-detail", "homogeneous">>)
              \o
              (IF Gt(uniformity, 8, 10) THEN <<"uniform", "homogeneous", "normal-tissue">>
               ELSE IF Gt(uniformity, 5, 10) THEN <<"semi-uniform", "mild-variation">>
               ELSE <<"heterogeneous", "varied", "possible-abnormality">>)
              \o
              (IF Gt(localVariance, 120, 1) THEN <<"high-variance", "noisy", "artifact-present">>
               ELSE IF Gt(localVariance, 60, 1) THEN <<"medium-variance", "normal-noise">>
               ELSE <<"low-variance", "clean", "high-quality">>),
          textureComplexity |-> TextureComplexity(roughness, localVariance),
          clinicalTexture |->
            [ isSmooth |-> Lt(roughness, 30, 1),
              isNormal |-> Ge(roughness, 30, 1) /\ Le(roughness, 60, 1),
              isComplex |-> Gt(roughness, 60, 1),
              hasArtifacts |-> Gt(localVariance, 120, 1),
              isHighQuality |-> Lt(localVariance, 60, 1) /\ Gt(uniformity, 6, 10) ] ]

performTextureAnalysis(px, w, h) ==
    LET m == TextureMeasures(px, w, h, StrideClinical)
    IN  TextureFeatures(m.roughness, m.localVariance)

\* the record analyzeTexturePatternsPerfect returns, from roughness and localVariance
TextureFeaturesPerfect(roughness, localVariance) ==
    LET uniformity == Uniformity(roughness)
    IN  [ roughness |-> roughness,
          uniformity |-> uniformity,
          localVariance |-> localVariance,
          patterns |->
              (IF Gt(roughness, 50, 1) THEN <<"high-detail", "complex-texture">>
               ELSE IF Gt(roughness, 25, 1) THEN <<"medium-detail", "moderate-texture">>
               ELSE <<"smooth", "low-detail">>)
              \o
              (IF Gt(uniformity, 8, 10) THEN <<"uniform", "homogeneous">>
               ELSE IF Gt(uniformity, 5, 10) THEN <<"semi-uniform">>
               ELSE <<"heterogeneous", "varied">>)
              \o
              (IF Gt(localVariance, 100, 1) THEN <<"high-variance", "noisy">>
               ELSE IF Gt(localVariance, 50, 1) THEN <<"medium-variance">>
               ELSE <<"low-variance", "clean">>),
          textureComplexity |-> TextureComplexity(roughness, localVariance) ]

analyzeTexturePatternsPerfect(px, w, h) ==
    LET m == TextureMeasures(px, w, h, StridePerfect)
    IN  TextureFeaturesPerfect(m.roughness, m.localVariance)

\* patterns.includes(tag)
Includes(patterns, tag) == \E i \in DOMAIN patterns : patterns[i] = tag

-----------------------------------------------------------------------------
(* Filename heuristic scorer *)

\* the upper-case letters and their lower-case forms: the patterns carry the i flag
ToLower ==
    [ A |-> "a", B |-> "b", C |-> "c", D |-> "d", E |-> "e", F |-> "f", G |-> "g",
      H |-> "h", I |-> "i", J |-> "j", K |-> "k", L |-> "l", M |-> "m", N |-> "n",
      O |-> "o", P |-> "p", Q |-> "q", R |-> "r", S |-> "s", T |-> "t", U |-> "u",
      V |-> "v", W |-> "w", X |-> "x", Y |-> "y", Z |-> "z" ]

LowerChar(c) == IF c \in DOMAIN ToLower THEN ToLower[c] ELSE c

\* the characters \b takes as part of a word: letters, digits and _
WordChars ==
    { "a", "b", "c", "d", "e", "f", "g", "h", "i", "j", "k", "l", "m", "n", "o", "p", "q",
      "r", "s", "t", "u", "v", "w", "x", "y", "z", "0", "1", "2", "3", "4", "5", "6", "7",
      "8", "9", "_" }

\* the word occurs in the name at position i, letter case ignored
OccursAt(name, word, i) ==
    /\ i + Len(word) - 1 <= Len(name)
    /\ \A j \in 1..Len(word) : LowerChar(name[i + j - 1]) = word[j]

\* a pattern shared by the calls that matches during the first call only, as a
\* pattern with the g flag does whose lastIndex was left behind its match
TestWordsFirstCall(words, name) ==
    /\ settled = <<>>
    /\ \E word \in words : \E i \in 1..Len(name) : OccursAt(name, word, i)

\* pattern.test(filename) for a pattern that is an alternation of words
TestWords(words, name) == \E word \in words : \E i \in 1..Len(name) : OccursAt(name, word, i)

\* pattern.test(filename) for word\b: the word followed by the end of the name or
\* by a character that is not part of a word
TestWordEnd(word, name) ==
    \E i \in 1..Len(name) :
        /\ OccursAt(name, word, i)
        /\ \/ i + Len(word) - 1 = Len(name)
           \/ LowerChar(name[i + Len(word)]) \notin WordChars

ChestPattern ==
    {
      <<"c", "h", "e", "s", "t">>,
      <<"l", "u", "n", "g">>,
      <<"t", "h", "o", "r", "a", "x">>,
      <<"c", "a", "r", "d", "i", "a", "c">>,
      <<"h", "e", "a", "r", "t">>,
      <<"p", "u", "l", "m", "o", "n">>,
      <<"r", "e", "s", "p", "i", "r", "a", "t", "o", "r", "y">>,
      <<"c", "x", "r">>,
      <<"p", "n", "e", "u", "m", "o", "n", "i", "a">>,
      <<"t", "u", "b", "e", "r", "c", "u", "l", "o", "s", "i", "s">> }

BrainPattern ==
    {
      <<"b", "r", "a", "i", "n">>,
      <<"m", "r", "i">>,
      <<"h", "e", "a", "d">>,
      <<"n", "e", "u", "r", "o">>,
      <<"c", "e", "r", "e", "b", "r">>,
      <<"s", "k", "u", "l", "l">>,
      <<"c", "r", "a", "n", "i", "a", "l">>,
      <<"i", "n", "t", "r", "a", "c", "r", "a", "n", "i", "a", "l">>,
      <<"s", "t", "r", "o", "k", "e">>,
      <<"t", "u", "m", "o", "r">> }

CtPattern ==
    {
      <<"c", "t">>,
      <<"c", "o", "m", "p", "u", "t", "e", "d">>,
      <<"t", "o", "m", "o", "g", "r", "a", "p", "h", "y">>,
      <<"s", "c", "a", "n">>,
      <<"a", "x", "i", "a", "l">>,
      <<"c", "o", "r", "o", "n", "a", "l">>,
      <<"s", "a", "g", "i", "t", "t", "a", "l">> }

BonePattern ==
    {
      <<"b", "o", "n", "e">>,
      <<"f", "r", "a", "c", "t", "u", "r", "e">>,
      <<"o", "r", "t", "h", "o", "p">>,
      <<"j", "o", "i", "n", "t">>,
      <<"s", "p", "i", "n", "e">>,
      <<"s", "k", "e", "l", "e", "t", "a", "l">>,
      <<"f", "e", "m", "u", "r">>,
      <<"t", "i", "b", "i", "a">>,
      <<"r", "a", "d", "i", "u", "s">>,
      <<"o", "s", "t", "e", "o">> }

\* a filename scorer that misses the brain pattern group
analyzeMedicalFilenameNoBrain(name) ==
    [ chest |-> IF TestWords(ChestPattern, name) THEN 95 ELSE 0,
      brain |-> 0,
      ct    |-> IF TestWords(CtPattern, name) THEN 90 ELSE 0,
      bone  |-> IF TestWords(BonePattern, name) THEN 90 ELSE 0 ]

\* a filename scorer that shares one weight among the groups that matched
analyzeMedicalFilenameNormalized(name) ==
    LET matched == [ chest |-> TestWords(ChestPattern, name), brain |-> TestWords(BrainPattern, name),
                     ct |-> TestWords(CtPattern, name), bone |-> TestWords(BonePattern, name) ]
        count == Cardinality({k \in DOMAIN matched : matched[k]})
    IN  [ chest |-> IF matched.chest THEN 95 \div count ELSE 0,
          brain |-> IF matched.brain THEN 95 \div count ELSE 0,
          ct    |-> IF matched.ct THEN 90 \div count ELSE 0,
          bone  |-> IF matched.bone THEN 90 \div count ELSE 0 ]

\* analyzeMedicalFilename's score of each pattern group, in hundredths
analyzeMedicalFilename(name) ==
    [ chest |-> IF TestWords(ChestPattern, name) THEN 95 ELSE 0,
      brain |-> IF TestWords(BrainPattern, name) THEN 95 ELSE 0,
      ct    |-> IF TestWords(CtPattern, name) THEN 90 ELSE 0,
      bone  |-> IF TestWords(BonePattern, name) THEN 90 ELSE 0 ]

BrainPatternPerfect ==
    {
      <<"b", "r", "a", "i", "n">>,
      <<"m", "r", "i">>,
      <<"h", "e", "a", "d">>,
      <<"n", "e", "u", "r", "o">>,
      <<"c", "e", "r", "e", "b", "r">>,
      <<"s", "k", "u", "l", "l">>,
      <<"c", "r", "a", "n", "i", "a", "l">>,
      <<"i", "n", "t", "r", "a", "c", "r", "a", "n", "i", "a", "l">> }

ChestPatternPerfect ==
    {
      <<"c", "h", "e", "s", "t">>,
      <<"l", "u", "n", "g">>,
      <<"t", "h", "o", "r", "a", "x">>,
      <<"c", "a", "r", "d", "i", "a", "c">>,
      <<"h", "e", "a", "r", "t">>,
      <<"p", "u", "l", "m", "o", "n">>,
      <<"r", "e", "s", "p", "i", "r", "a", "t", "o", "r", "y">>,
      <<"c", "x", "r">> }

XrayPatternPerfect ==
    {
      <<"x", "r", "a", "y">>,
      <<"x", "-", "r", "a", "y">>,
      <<"r", "a", "d", "i", "o", "g", "r", "a", "p", "h">>,
      <<"r", "a", "d", "i", "o">>,
      <<"p", "l", "a", "i", "n">>,
      <<"f", "i", "l", "m">> }

UltrasoundPatternPerfect ==
    {
      <<"u", "l", "t", "r", "a", "s", "o", "u", "n", "d">>,
      <<"e", "c", "h", "o">>,
      <<"d", "o", "p", "p", "l", "e", "r">>,
      <<"s", "o", "n", "o", "g", "r", "a", "m">>,
      <<"s", "o", "n", "o">> }

BonePatternPerfect ==
    {
      <<"b", "o", "n", "e">>,
      <<"f", "r", "a", "c", "t", "u", "r", "e">>,
      <<"o", "r", "t", "h", "o", "p">>,
      <<"j", "o", "i", "n", "t">>,
      <<"s", "p", "i", "n", "e">>,
      <<"s", "k", "e", "l", "e", "t", "a", "l">>,
      <<"f", "e", "m", "u", "r">>,
      <<"t", "i", "b", "i", "a">>,
      <<"r", "a", "d", "i", "u", "s">> }

AbdomenPatternPerfect ==
    {
      <<"a", "b", "d", "o", "m", "e", "n">>,
      <<"a", "b", "d", "o", "m">>,
      <<"l", "i", "v", "e", "r">>,
      <<"k", "i", "d", "n", "e", "y">>,
      <<"p", "e", "l", "v", "i", "s">>,
      <<"g", "a", "s", "t", "r", "o">>,
      <<"i", "n", "t", "e", "s", "t", "i", "n">> }

MammographyPatternPerfect ==
    {
      <<"m", "a", "m", "m", "o">>,
      <<"b", "r", "e", "a", "s", "t">>,
      <<"m", "a", "m", "m", "o", "g", "r", "a", "p", "h", "y">> }

DentalPatternPerfect ==
    {
      <<"d", "e", "n", "t", "a", "l">>,
      <<"t", "o", "o", "t", "h">>,
      <<"t", "e", "e", "t", "h">>,
      <<"o", "r", "a", "l">>,
      <<"j", "a", "w">>,
      <<"m", "a", "n", "d", "i", "b", "l", "e">>,
      <<"m", "a", "x", "i", "l", "l", "a">> }

\* analyzeFilenamePerfect's score of each pattern group, in hundredths; the ct
\* group has the clinical profile's pattern, and the ultrasound group also has us\b
analyzeFilenamePerfect(name) ==
    [ brain |-> IF TestWords(BrainPatternPerfect, name) THEN 90 ELSE 0,
      chest |-> IF TestWords(ChestPatternPerfect, name) THEN 90 ELSE 0,
      ct    |-> IF TestWords(CtPattern, name) THEN 80 ELSE 0,
      xray  |-> IF TestWords(XrayPatternPerfect, name) THEN 80 ELSE 0,
      ultrasound |-> IF TestWords(UltrasoundPatternPerfect, name)
                        \/ TestWordEnd(<<"u", "s">>, name) THEN 90 ELSE 0,
      bone  |-> IF TestWords(BonePatternPerfect, name) THEN 80 ELSE 0,
      abdomen |-> IF TestWords(AbdomenPatternPerfect, name) THEN 80 ELSE 0,
      mammography |-> IF TestWords(MammographyPatternPerfect, name) THEN 90 ELSE 0,
      dental |-> IF TestWords(DentalPatternPerfect, name) THEN 90 ELSE 0 ]

-----------------------------------------------------------------------------
(* Pathology indicator scorer (clinical profile) *)

\* the keys of the pathologies object, in declaration order
PathologyNames ==
    << "pneumonia", "atelectasis", "cardiomegaly", "pleural_effusion", "pneumothorax",
       "consolidation", "edema", "emphysema", "fibrosis", "nodule", "mass", "infiltration",
       "stroke", "tumor", "hemorrhage", "normal" >>

\* the pathologies object after the scoring rules ran in order, in hundredths;
\* the atelectasis rule writes consolidation after the pneumonia rule
PathologyScores(v) ==
    LET ind == v.pathologyIndicators
        nodular == ContrastGt(v, 7) /\ Gt(v.edgeDensity, 5, 10)
    IN  [ pneumonia        |-> IF ind.pneumonia THEN 85 ELSE 0,
          atelectasis      |-> IF ind.atelectasis THEN 80 ELSE 0,
          cardiomegaly     |-> IF ind.cardiomegaly THEN 75 ELSE 0,
          pleural_effusion |-> IF ind.pleural_effusion THEN 80 ELSE 0,
          pneumothorax     |-> IF Gt(v.darkRatio, 9, 10) THEN 70 ELSE 0,
          consolidation    |-> IF ind.atelectasis THEN 50 ELSE IF ind.pneumonia THEN 70 ELSE 0,
          edema            |-> IF ind.pleural_effusion THEN 40 ELSE 0,
          emphysema        |-> IF Gt(v.brightRatio, 3, 10) /\ Lt(v.darkRatio, 4, 10) THEN 50 ELSE 0,
          fibrosis         |-> 0,
          nodule           |-> IF nodular THEN 60 ELSE 0,
          mass             |-> IF nodular THEN 40 ELSE 0,
          infiltration     |-> IF ind.pneumonia THEN 60 ELSE 0,
          stroke           |-> 0,
          tumor            |-> 0,
          hemorrhage       |-> 0,
          normal           |-> IF ind.normal_chest THEN 90 ELSE 0 ]

\* Object.entries(pathologies).filter(([_, score]) => score > 0.3)
FilterPathologies(scores) ==
    SelectSeq([i \in DOMAIN PathologyNames |-> <<PathologyNames[i], scores[PathologyNames[i]]>>],
              LAMBDA e : e[2] > 30)

\* one step of the stable sort by (a, b) => b - a: e goes behind every entry
\* whose score is not lower
InsertDescending(sorted, e) ==
    LET ahead == SelectSeq(sorted, LAMBDA x : x[2] >= e[2])
        behind == SelectSeq(sorted, LAMBDA x : x[2] < e[2])
    IN  ahead \o <<e>> \o behind

RECURSIVE SortDescending(_)
SortDescending(entries) ==
    IF entries = <<>> THEN <<>>
    ELSE InsertDescending(SortDescending(SubSeq(entries, 1, Len(entries) - 1)),
                          entries[Len(entries)])

\* no truncation of the sorted list
SliceAll(s) == s

\* .slice(0, 5)
Slice5(s) == SubSeq(s, 1, Min(Len(s), 5))

\* .filter(...).sort(...).slice(0, 5)
TopPathologies(scores) == Slice5(SortDescending(FilterPathologies(scores)))

\* a detector whose hasPathology flag is set as soon as the list is not empty
detectPathologiesAnyEntry(visualAnalysis) ==
    LET pathologies == PathologyScores(visualAnalysis)
        sortedPathologies == TopPathologies(pathologies)
    IN  [ pathologies |-> pathologies,
          topPathologies |-> sortedPathologies,
          hasPathology |-> Len(sortedPathologies) > 0,
          confidence |-> IF Len(sortedPathologies) > 0 THEN sortedPathologies[1][2] ELSE 0 ]

detectPathologies(visualAnalysis) ==
    LET pathologies == PathologyScores(visualAnalysis)
        sortedPathologies == TopPathologies(pathologies)
    IN  [ pathologies |-> pathologies,
          topPathologies |-> sortedPathologies,
          hasPathology |-> Len(sortedPathologies) > 0 /\ sortedPathologies[1][2] > 50,
          confidence |-> IF Len(sortedPathologies) > 0 THEN sortedPathologies[1][2] ELSE 0 ]

-----------------------------------------------------------------------------
(* Modality rule tables *)

\* the keys of the clinical profile's score objects, in declaration order
ClinicalModalities ==
    << "chest-xray", "brain-mri", "ct-scan", "ultrasound", "bone-xray", "abdominal-ct",
       "mammography", "dental-xray", "spine-xray" >>

\* the keys of the perfect profile's score objects, in declaration order
PerfectModalities ==
    << "brain-mri", "chest-xray", "ct-scan", "ultrasound", "bone-xray", "abdominal-ct",
       "mammography", "dental-xray", "spine-xray" >>

Modalities == {ClinicalModalities[i] : i \in DOMAIN ClinicalModalities}

\* a clinical rule table in which the bone-xray rule outweighs the chest-xray rule
ClinicalRuleScoreBoneHigh(m) ==
    CASE m = "chest-xray" -> 95
      [] m = "brain-mri" -> 93
      [] m = "ct-scan" -> 90
      [] m = "abdominal-ct" -> 40
      [] m = "bone-xray" -> 96
      [] m = "ultrasound" -> 85
      [] m = "mammography" -> 87
      [] m = "spine-xray" -> 86
      [] OTHER -> 0

\* the score each rule of performClinicalClassification assigns, in hundredths
ClinicalRuleScore(m) ==
    CASE m = "chest-xray" -> 95
      [] m = "brain-mri" -> 93
      [] m = "ct-scan" -> 90
      [] m = "abdominal-ct" -> 40
      [] m = "bone-xray" -> 88
      [] m = "ultrasound" -> 85
      [] m = "mammography" -> 87
      [] m = "spine-xray" -> 86
      [] OTHER -> 0

\* the classifications performClinicalClassification returns, in hundredths, from
\* the features it extracts from the buffer
ClinicalClassification(v, s, t) ==
    LET vf == v.clinicalFeatures
        af == s.anatomicalFeatures
        ctScan == af.isCTScan /\ vf.isMedium /\ t.clinicalTexture.isNormal
        fires(m) ==
          CASE m = "chest-xray" ->
                 vf.isDark /\ vf.hasHighContrast /\ af.isChestXray /\ Gt(v.edgeDensity, 25, 100)
            [] m = "brain-mri" ->
                 af.isBrainMRI /\ vf.isMedium /\ s.clinicalPositioning.hasGoodSymmetry
            [] m = "ct-scan" -> ctScan
            [] m = "abdominal-ct" -> ctScan
            [] m = "bone-xray" ->
                 vf.hasHighContrast /\ Gt(v.brightRatio, 15, 100) /\ t.clinicalTexture.isComplex
            [] m = "ultrasound" ->
                 vf.isDark /\ vf.hasLowContrast /\ Includes(t.patterns, "noisy")
            [] m = "mammography" ->
                 af.isMammography /\ vf.isMedium /\ vf.hasHighContrast
            [] m = "spine-xray" ->
                 af.isSpineXray /\ vf.hasHighContrast /\ Gt(v.edgeDensity, 4, 10)
            [] OTHER -> FALSE
    IN  [ m \in Modalities |-> IF fires(m) THEN ClinicalRuleScore(m) ELSE 0 ]

performClinicalClassification(px, w, h) ==
    ClinicalClassification(performAdvancedVisualAnalysis(px, w, h),
                           analyzeAnatomicalStructure(px, w, h),
                           performTextureAnalysis(px, w, h))

\* the classifications performMedicalImageClassification returns, in hundredths
MedicalClassification(v, s, t) ==
    LET vf == v.clinicalFeatures
        ctScan == vf.isMedium /\ s.isSquare /\ vf.hasMediumContrast /\ Gt(t.textureComplexity, 5, 10)
    IN  [ m \in Modalities |->
          CASE m = "brain-mri" ->
                 IF s.hasGoodSymmetry /\ s.isSquare /\ vf.isMedium /\ vf.hasHighContrast
                 THEN 90 ELSE 0
            [] m = "chest-xray" ->
                 IF vf.isDark /\ vf.hasHighContrast /\ s.isRectangular /\ Gt(v.edgeDensity, 25, 100)
                 THEN 90 ELSE 0
            [] m = "ct-scan" -> IF ctScan THEN 80 ELSE 0
            [] m = "abdominal-ct" -> IF ctScan THEN 30 ELSE 0
            [] m = "bone-xray" ->
                 IF vf.hasHighContrast /\ Gt(v.brightRatio, 15, 100) /\ Gt(t.textureComplexity, 6, 10)
                 THEN 85 ELSE 0
            [] m = "ultrasound" ->
                 IF vf.isDark /\ vf.hasLowContrast /\ Includes(t.patterns, "noisy")
                 THEN 80 ELSE 0
            [] m = "mammography" ->
                 IF vf.isMedium /\ vf.hasHighContrast /\ s.isTall /\ Gt(v.edgeDensity, 3, 10)
                 THEN 85 ELSE 0
            [] m = "dental-xray" ->
                 IF vf.hasHighContrast /\ s.isWide /\ Gt(v.brightRatio, 2, 10) THEN 80 ELSE 0
            [] m = "spine-xray" ->
                 IF vf.hasHighContrast /\ s.isTall /\ Gt(v.edgeDensity, 4, 10) THEN 80 ELSE 0
            [] OTHER -> 0 ]

performMedicalImageClassification(px, w, h) ==
    MedicalClassification(analyzeVisualCharacteristicsPerfect(px, w, h),
                          analyzeImageStructurePerfect(px, w, h),
                          analyzeTexturePatternsPerfect(px, w, h))

\* the features list detectAnatomicalFeaturesPerfect returns, from the features
\* it extracts from the buffer
AnatomicalFeatures(v, s) ==
    LET vf == v.clinicalFeatures
    IN  (IF s.hasGoodSymmetry /\ s.isSquare /\ vf.isMedium /\ vf.hasHighContrast
         THEN <<"bilateral-brain-symmetry", "brain-tissue-contrast", "cranial-structure">> ELSE <<>>)
        \o
        (IF vf.isDark /\ vf.hasHighContrast /\ s.isRectangular /\ Gt(v.edgeDensity, 3, 10)
         THEN <<"rib-cage-structure", "lung-field-pattern", "thoracic-anatomy">> ELSE <<>>)
        \o
        (IF vf.isMedium /\ s.isSquare /\ vf.hasMediumContrast /\ vf.isHighDetail
         THEN <<"cross-sectional-anatomy", "ct-density-patterns", "axial-slice">> ELSE <<>>)
        \o
        (IF vf.hasHighContrast /\ vf.isHighDetail /\ Gt(v.brightRatio, 1, 10)
         THEN <<"bone-cortex", "skeletal-structure", "high-density-material">> ELSE <<>>)
        \o
        (IF vf.isDark /\ vf.hasLowContrast /\ vf.isLowDetail
         THEN <<"acoustic-shadowing", "soft-tissue-echoes", "ultrasound-artifacts">> ELSE <<>>)
        \o
        (IF vf.isMedium /\ vf.hasHighContrast /\ s.isTall
         THEN <<"breast-tissue", "mammographic-density", "glandular-pattern">> ELSE <<>>)

detectAnatomicalFeaturesPerfect(px, w, h) ==
    [ features |-> AnatomicalFeatures(analyzeVisualCharacteristicsPerfect(px, w, h),
                                      analyzeImageStructurePerfect(px, w, h)) ]

-----------------------------------------------------------------------------
(* Ensemble classifier *)

ConfidenceCapClinical == 97
ConfidenceFloorClinical == 80
ConfidenceCapPerfect == 98
ConfidenceFloorPerfect == 75

\* Math.max(...Object.values(scores))
MaxScore(order, scores) ==
    CHOOSE v \in {scores[order[i]] : i \in DOMAIN order} :
        \A i \in DOMAIN order : scores[order[i]] <= v

\* an arg-max in which the last of several equal maxima wins
FindLast(order, scores, maxScore) ==
    LET hits == {i \in DOMAIN order : scores[order[i]] = maxScore}
    IN  IF hits = {} THEN "unknown"
        ELSE order[CHOOSE i \in hits : \A j \in hits : i >= j]

\* Object.entries(scores).find(([_, score]) => score === maxScore)?.[0] || 'unknown'
FindFirst(order, scores, maxScore) ==
    LET hits == {i \in DOMAIN order : scores[order[i]] = maxScore}
    IN  IF hits = {} THEN "unknown"
        ELSE order[CHOOSE i \in hits : \A j \in hits : i <= j]

\* a clamp that applies the floor and forgets the cap
ClampFloorOnly(maxScore, cap, floor) == Max(maxScore, floor * 100)

\* Math.max(Math.min(maxScore * 100, cap), floor), in hundredths of a percent
\* (maxScore is in units of 1/10000)
ClampConfidence(maxScore, cap, floor) == Max(Min(maxScore, cap * 100), floor * 100)

\* a scores object whose bonus is given for any top pathology, normal included
ClinicalScoresAnyPathology(an) ==
    LET f == an.filename
        pathology == an.pathology
        bonus == IF pathology.hasPathology /\ Len(pathology.topPathologies) > 0
                 THEN 1500 ELSE 0
    IN  [ m \in Modalities |->
            (CASE m = "chest-xray" -> f.chest * 20 + bonus
               [] m = "brain-mri" -> f.brain * 20
               [] m = "ct-scan" -> f.ct * 12
               [] m = "abdominal-ct" -> f.ct * 8
               [] m = "bone-xray" -> f.bone * 15
               [] m = "spine-xray" -> f.bone * 5
               [] OTHER -> 0)
            + an.clinical[m] * 60 ]

\* the scores object of classifyMedicalImageClinical before the arg-max, in
\* units of 1/10000: filename part, clinical cls * 0.6, pathology bonus
ClinicalScores(an) ==
    LET f == an.filename
        pathology == an.pathology
        bonus == IF pathology.hasPathology /\ Len(pathology.topPathologies) > 0
                    /\ pathology.topPathologies[1][1] \in
                         {"pneumonia", "atelectasis", "cardiomegaly", "pleural_effusion"}
                 THEN 1500 ELSE 0
    IN  [ m \in Modalities |->
            (CASE m = "chest-xray" -> f.chest * 20 + bonus
               [] m = "brain-mri" -> f.brain * 20
               [] m = "ct-scan" -> f.ct * 12
               [] m = "abdominal-ct" -> f.ct * 8
               [] m = "bone-xray" -> f.bone * 15
               [] m = "spine-xray" -> f.bone * 5
               [] OTHER -> 0)
            + an.clinical[m] * 60 ]

classifyMedicalImageClinical(an) ==
    LET scores == ClinicalScores(an)
        maxScore == MaxScore(ClinicalModalities, scores)
    IN  [ type |-> FindFirst(ClinicalModalities, scores, maxScore),
          confidence |-> ClampConfidence(maxScore, ConfidenceCapClinical, ConfidenceFloorClinical),
          maxScore |-> maxScore,
          scores |-> scores ]

\* a count in which every listed feature tag is taken twice
CountOfTwice(features, tags) == 2 * Cardinality({i \in DOMAIN features : features[i] \in tags})

\* the number of the listed feature tags in the features list
CountOf(features, tags) == Cardinality({i \in DOMAIN features : features[i] \in tags})

\* the scores object of classifyMedicalImagePerfect before the arg-max, in units
\* of 1/10000: filename part, medical cls * 0.5, anatomical features
PerfectScores(an) ==
    LET f == an.filename
        a == an.anatomical.features
        brainTags == CountOf(a, {"bilateral-brain-symmetry", "brain-tissue-contrast", "cranial-structure"})
        chestTags == CountOf(a, {"rib-cage-structure", "lung-field-pattern", "thoracic-anatomy"})
        boneTags == CountOf(a, {"bone-cortex", "skeletal-structure"})
        ctTags == CountOf(a, {"cross-sectional-anatomy", "ct-density-patterns"})
        usTags == CountOf(a, {"acoustic-shadowing", "soft-tissue-echoes"})
        mammoTags == CountOf(a, {"breast-tissue", "mammographic-density"})
    IN  [ m \in Modalities |->
            (CASE m = "brain-mri" -> f.brain * 25 + brainTags * 800
               [] m = "chest-xray" -> f.chest * 25 + f.xray * 10 + chestTags * 800
               [] m = "ct-scan" -> f.ct * 15 + ctTags * 600
               [] m = "abdominal-ct" -> f.ct * 10 + f.abdomen * 25 + ctTags * 200
               [] m = "bone-xray" -> f.xray * 10 + f.bone * 20 + boneTags * 800
               [] m = "spine-xray" -> f.xray * 5 + f.bone * 5 + boneTags * 400
               [] m = "ultrasound" -> f.ultrasound * 25 + usTags * 800
               [] m = "mammography" -> f.mammography * 25 + mammoTags * 800
               [] m = "dental-xray" -> f.dental * 25
               [] OTHER -> 0)
            + an.medical[m] * 50 ]

classifyMedicalImagePerfect(an) ==
    LET scores == PerfectScores(an)
        maxScore == MaxScore(PerfectModalities, scores)
    IN  [ type |-> FindFirst(PerfectModalities, scores, maxScore),
          confidence |-> ClampConfidence(maxScore, ConfidenceCapPerfect, ConfidenceFloorPerfect),
          maxScore |-> maxScore,
          scores |-> scores ]

-----------------------------------------------------------------------------
(* Diagnosis content resolver: the fields that depend on the classification *)

\* Math.round of a non-negative value given in hundredths
Round100(c) == (c + 50) \div 100

determineChestXrayUrgency(pathologies) ==
    IF Len(pathologies) = 0 \/ pathologies[1][2] < 50 THEN "low"
    ELSE IF pathologies[1][2] > 80
         THEN (IF pathologies[1][1] \in {"pneumonia", "pleural_effusion"} THEN "high" ELSE "medium")
         ELSE "medium"

\* the findings list: the six normal findings when no pathology reaches 0.5,
\* otherwise what the forEach pushes for each entry above 0.5 (a finding with
\* the rounded probability, and a second line) for the four conditions it knows
generateChestXrayFindings(pathologies) ==
    LET findingsOf(e) ==
            IF e[2] <= 50 THEN <<>>
            ELSE CASE e[1] = "pneumonia" ->
                        << <<"Consolidation pattern consistent with pneumonia", e[2]>>,
                           "Increased opacity in affected lung regions" >>
                   [] e[1] = "atelectasis" ->
                        << <<"Volume loss and increased density suggesting atelectasis", e[2]>>,
                           "Possible bronchial obstruction or compression" >>
                   [] e[1] = "cardiomegaly" ->
                        << <<"Enlarged cardiac silhouette suggesting cardiomegaly", e[2]>>,
                           "Cardiothoracic ratio appears increased" >>
                   [] e[1] = "pleural_effusion" ->
                        << <<"Blunting of costophrenic angles suggesting pleural effusion", e[2]>>,
                           "Fluid collection in pleural space" >>
                   [] OTHER -> <<>>
        RECURSIVE pushed(_)
        pushed(k) == IF k = 0 THEN <<>> ELSE pushed(k - 1) \o findingsOf(pathologies[k])
    IN  IF Len(pathologies) = 0 \/ pathologies[1][2] < 50
        THEN << "Bilateral lung fields demonstrate normal aeration and transparency",
                "Heart size within normal limits (cardiothoracic ratio < 50%)",
                "Mediastinal contours and hilar structures appear normal",
                "No focal consolidation, mass lesions, or pleural effusions detected",
                "Costophrenic angles are sharp and well-defined bilaterally",
                "Bony thorax including ribs and spine appear intact" >>
        ELSE pushed(Len(pathologies))

\* the diagnosis sentence: its wording and, for an abnormal one, the rounded
\* probability of the first entry
generateChestXrayDiagnosis(pathologies) ==
    IF Len(pathologies) = 0 \/ pathologies[1][2] < 50
    THEN <<"Normal chest radiograph - no acute cardiopulmonary abnormalities detected">>
    ELSE CASE pathologies[1][1] = "pneumonia" ->
                <<"Findings consistent with pneumonia", pathologies[1][2]>>
           [] pathologies[1][1] = "atelectasis" ->
                <<"Atelectasis identified", pathologies[1][2]>>
           [] pathologies[1][1] = "cardiomegaly" ->
                <<"Cardiomegaly detected", pathologies[1][2]>>
           [] pathologies[1][1] = "pleural_effusion" ->
                <<"Pleural effusion present", pathologies[1][2]>>
           [] OTHER -> <<"Abnormal chest findings detected", pathologies[1][2]>>

\* the treatment list, by its first entry
generateChestXrayTreatments(pathologies) ==
    IF Len(pathologies) = 0 \/ pathologies[1][2] < 50
    THEN "No treatment necessary for normal chest X-ray findings"
    ELSE CASE pathologies[1][1] = "pneumonia" ->
                "Immediate medical evaluation for suspected pneumonia"
           [] pathologies[1][1] = "cardiomegaly" ->
                "Cardiology consultation for comprehensive cardiac evaluation"
           [] pathologies[1][1] = "pleural_effusion" ->
                "Pulmonology consultation for pleural effusion evaluation"
           [] OTHER -> "Immediate consultation with healthcare provider"

getClinicalAnatomicalRegion(imageType) ==
    CASE imageType = "chest-xray" -> "Thoracic cavity (cardiopulmonary system)"
      [] imageType = "brain-mri" -> "Intracranial structures (central nervous system)"
      [] imageType = "ct-scan" -> "Cross-sectional anatomy (multi-organ system)"
      [] imageType = "bone-xray" -> "Musculoskeletal system (osseous structures)"
      [] imageType = "spine-xray" -> "Vertebral column (spinal anatomy)"
      [] imageType = "abdominal-ct" -> "Abdominal cavity (visceral organs)"
      [] imageType = "ultrasound" -> "Soft tissue structures (real-time imaging)"
      [] imageType = "mammography" -> "Breast tissue (mammary gland)"
      [] imageType = "dental-xray" -> "Oral cavity (dental structures)"
      [] OTHER -> "Unspecified anatomical region"

getClinicalImagingModality(imageType) ==
    CASE imageType = "brain-mri" -> "Magnetic Resonance Imaging (MRI) - Clinical grade"
      [] imageType \in {"chest-xray", "bone-xray", "spine-xray", "dental-xray"} ->
             "Digital Radiography (X-ray) - Clinical grade"
      [] imageType \in {"ct-scan", "abdominal-ct"} -> "Computed Tomography (CT) - Clinical grade"
      [] imageType = "ultrasound" -> "Diagnostic Ultrasonography - Clinical grade"
      [] imageType = "mammography" -> "Digital Mammography - Clinical grade"
      [] OTHER -> "Unknown imaging modality"

getAnatomicalRegionPerfect(imageType) ==
    CASE imageType = "brain-mri" -> "Neurological/Intracranial"
      [] imageType = "chest-xray" -> "Thoracic/Cardiopulmonary"
      [] imageType = "ct-scan" -> "Cross-sectional/Multi-organ"
      [] imageType = "bone-xray" -> "Musculoskeletal/Orthopedic"
      [] imageType = "spine-xray" -> "Spinal/Vertebral"
      [] imageType = "abdominal-ct" -> "Abdominal/Pelvic"
      [] imageType = "ultrasound" -> "Soft tissue/Vascular"
      [] imageType = "mammography" -> "Breast tissue"
      [] imageType = "dental-xray" -> "Oral/Maxillofacial"
      [] OTHER -> "Unspecified anatomical region"

getImagingModalityPerfect(imageType) ==
    CASE imageType = "brain-mri" -> "Magnetic Resonance Imaging (MRI)"
      [] imageType \in {"chest-xray", "bone-xray", "spine-xray", "dental-xray"} ->
             "Plain Film Radiography (X-ray)"
      [] imageType \in {"ct-scan", "abdominal-ct"} -> "Computed Tomography (CT)"
      [] imageType = "ultrasound" -> "Diagnostic Ultrasonography"
      [] imageType = "mammography" -> "Digital Mammography"
      [] OTHER -> "Unknown imaging modality"

\* the fields of the returned result that depend on the classification; the
\* default branch overwrites imageType after technicalDetails was built from type
generateClinicalDiagnosis(cls, an) ==
    LET technicalDetails == [ anatomicalRegion |-> getClinicalAnatomicalRegion(cls.type),
                              imagingModality |-> getClinicalImagingModality(cls.type) ]
        topPathologies == an.pathology.topPathologies
    IN  CASE cls.type = "chest-xray" ->
                 [ imageType |-> cls.type,
                   confidence |-> Round100(cls.confidence),
                   technicalDetails |-> technicalDetails,
                   findings |-> generateChestXrayFindings(topPathologies),
                   diagnosis |-> generateChestXrayDiagnosis(topPathologies),
                   treatments |-> generateChestXrayTreatments(topPathologies),
                   urgency |-> determineChestXrayUrgency(topPathologies) ]
          [] cls.type = "brain-mri" ->
                 [ imageType |-> cls.type,
                   confidence |-> Round100(cls.confidence),
                   technicalDetails |-> technicalDetails,
                   diagnosis |-> <<"Normal brain MRI study - no acute intracranial pathology detected">>,
                   urgency |-> "low" ]
          [] OTHER ->
                 [ imageType |-> "unknown",
                   confidence |-> Round100(cls.confidence),
                   technicalDetails |-> technicalDetails,
                   diagnosis |-> <<"Clinical-grade medical imaging analysis - professional correlation recommended">>,
                   urgency |-> "medium" ]

generatePerfectDiagnosis(cls, an) ==
    [ imageType |-> IF cls.type \in
                         {"brain-mri", "chest-xray", "ct-scan", "bone-xray", "ultrasound"}
                    THEN cls.type ELSE "unknown",
      confidence |-> Round100(cls.confidence),
      technicalDetails |-> [ anatomicalRegion |-> getAnatomicalRegionPerfect(cls.type),
                             imagingModality |-> getImagingModalityPerfect(cls.type) ],
      urgency |-> IF cls.type \in
                         {"brain-mri", "chest-xray", "ct-scan", "bone-xray", "ultrasound"}
                  THEN "low" ELSE "medium" ]

-----------------------------------------------------------------------------
(* The two pipelines *)

\* the analyses object performClinicalImageAnalysis hands to the classifier,
\* from the extractor outputs and the classifications
ClinicalAnalyses(fileScores, visual, structural, texture, clinical) ==
    [ filename |-> fileScores, visual |-> visual, structural |-> structural,
      texture |-> texture, pathology |-> detectPathologies(visual), clinical |-> clinical ]

\* the analyses object performPerfectImageAnalysis hands to the classifier
PerfectAnalyses(fileScores, visual, structural, texture, anatomical, medical) ==
    [ filename |-> fileScores, visual |-> visual, structural |-> structural,
      texture |-> texture, anatomical |-> anatomical, medical |-> medical ]

\* what a run leaves behind: the analyses, the classification, the returned result
Outcome(p, an) ==
    LET cls == IF p = "clinical" THEN classifyMedicalImageClinical(an)
               ELSE classifyMedicalImagePerfect(an)
    IN  [ analyses |-> an,
          classification |-> cls,
          result |-> IF p = "clinical" THEN generateClinicalDiagnosis(cls, an)
                     ELSE generatePerfectDiagnosis(cls, an) ]

performClinicalImageAnalysis(px, name, w, h) ==
    Outcome("clinical",
            ClinicalAnalyses(analyzeMedicalFilename(name),
                             performAdvancedVisualAnalysis(px, w, h),
                             analyzeAnatomicalStructure(px, w, h),
                             performTextureAnalysis(px, w, h),
                             performClinicalClassification(px, w, h)))

performPerfectImageAnalysis(px, name, w, h) ==
    Outcome("perfect",
            PerfectAnalyses(analyzeFilenamePerfect(name),
                            analyzeVisualCharacteristicsPerfect(px, w, h),
                            analyzeImageStructurePerfect(px, w, h),
                            analyzeTexturePatternsPerfect(px, w, h),
                            detectAnatomicalFeaturesPerfect(px, w, h),
                            performMedicalImageClassification(px, w, h)))

-----------------------------------------------------------------------------
(* Inputs *)

Profiles == {"clinical", "perfect"}

\* "photo.png"
PhotoPng == <<"p", "h", "o", "t", "o", ".", "p", "n", "g">>
\* "brain_mri_scan.png"
BrainMriScanPng == <<"b", "r", "a", "i", "n", "_", "m", "r", "i", "_", "s", "c", "a", "n", ".", "p", "n", "g">>
\* "chest_xray.png"
ChestXrayPng == <<"c", "h", "e", "s", "t", "_", "x", "r", "a", "y", ".", "p", "n", "g">>

FileNames == {PhotoPng, BrainMriScanPng, ChestXrayPng}

Black == <<0, 0, 0>>
Dim == <<55, 55, 55>>
Gray == <<90, 90, 90>>
Tint == <<140, 150, 160>>
White == <<255, 255, 255>>

Palette == {Black, Dim, Gray, Tint, White}

ImageKinds == {"uniform", "dots", "columns", "thirds", "checker", "leftright", "topbottom"}

\* the colour of pixel (x, y) of a test image in the colours a and b ("thirds"
\* adds Gray as a third colour)
ColourAt(kind, a, b, x, y, w, h) ==
    CASE kind = "uniform" -> a
      [] kind = "dots" -> IF x % 2 = 0 /\ y % 2 = 0 THEN b ELSE a
      [] kind = "columns" -> IF x % 2 = 0 THEN a ELSE b
      [] kind = "thirds" -> IF x % 3 = 0 THEN a ELSE IF x % 3 = 1 THEN b ELSE Gray
      [] kind = "checker" -> IF (x + y) % 2 = 0 THEN a ELSE b
      [] kind = "leftright" -> IF 2 * x < w THEN a ELSE b
      [] kind = "topbottom" -> IF 2 * y < h THEN a ELSE b

\* the row-major buffer getImageData returns for a w by h image
Buffer(kind, a, b, w, h) ==
    [i \in 1..(w * h) |-> ColourAt(kind, a, b, (i - 1) % w, (i - 1) \div w, w, h)]

-----------------------------------------------------------------------------
(* The analysis of one file: analyzeMedicalImageClinical / analyzeImagePerfect *)

\* null or undefined, as the value of a state that holds a record otherwise
None == [none |-> TRUE]

\* new Error('Could not load image')
LoadError == "Could not load image"

\* new Error('Could not extract image data'), or what getImageData threw
PixelDataErrors == {"Could not extract image data", "getImageData exception"}

\* one call of resolve or reject: the value or error passed, and for a resolve
\* the run that computed the value
Settlement(outcome, value, run) == [outcome |-> outcome, value |-> value, run |-> run]

\* the state of App and ChatInterface after their first render: the useState
\* initial values, no handler running, no timer set
Mounted ==
    /\ uploadedFile = None
    /\ diagnosisData = None
    /\ isAnalyzing = FALSE
    /\ awaiting = FALSE
    /\ messages = <<>>
    /\ inputValue = <<>>
    /\ isTyping = FALSE
    /\ timers = {}
    /\ sent = 0

\* the components as they are while a pipeline is called directly
AppInitial == automaticBatching = TRUE /\ Mounted

Init ==
    /\ profile \in Profiles
    /\ filename \in FileNames
    /\ width \in 1..MaxW
    /\ height \in 1..MaxH
    /\ \E kind \in ImageKinds, a \in Palette, b \in Palette :
           pixels = Buffer(kind, a, b, width, height)
    /\ pc = "pending"
    /\ analyses = None
    /\ classification = None
    /\ result = None
    /\ settled = <<>>
    /\ AppInitial

\* an onload whose analysis converts the caller's buffer to grey levels in place
OnLoadInPlace ==
    /\ pc = "pending"
    /\ \E out \in {IF profile = "clinical"
                    THEN performClinicalImageAnalysis(pixels, filename, width, height)
                    ELSE performPerfectImageAnalysis(pixels, filename, width, height)} :
           /\ analyses' = out.analyses
           /\ classification' = out.classification
           /\ result' = out.result
           /\ settled' = Append(settled, Settlement("resolve", out.result, out))
    /\ pc' = "resolved"
    /\ pixels' = [k \in 1..Len(pixels) |->
                     LET g == RoundedBrightness(pixels, k - 1) IN <<g, g, g>>]
    /\ UNCHANGED <<profile, filename, width, height, appVars>>

\* img.onload: the pixel data is read and analysed, the promise resolves
OnLoad ==
    /\ pc = "pending"
    /\ \E out \in {IF profile = "clinical"
                    THEN performClinicalImageAnalysis(pixels, filename, width, height)
                    ELSE performPerfectImageAnalysis(pixels, filename, width, height)} :
           /\ analyses' = out.analyses
           /\ classification' = out.classification
           /\ result' = out.result
           /\ settled' = Append(settled, Settlement("resolve", out.result, out))
    /\ pc' = "resolved"
    /\ UNCHANGED <<profile, filename, width, height, pixels, appVars>>

\* img.onload when no pixel data can be had: getContext returned null, so that
\* imageData is undefined and the handler throws, or getImageData threw; the
\* catch clause rejects before any extractor is called
OnLoadNoPixelData ==
    /\ pc = "pending"
    /\ \E error \in PixelDataErrors : settled' = Append(settled, Settlement("reject", error, None))
    /\ pc' = "rejected"
    /\ UNCHANGED <<profile, filename, width, height, pixels, analyses, classification, result, appVars>>

\* an error event that is also delivered after the promise has settled
OnErrorAnytime ==
    /\ Len(settled) < 2
    /\ settled' = Append(settled, Settlement("reject", LoadError, None))
    /\ pc' = "rejected"
    /\ UNCHANGED <<profile, filename, width, height, pixels, analyses, classification, result, appVars>>

\* img.onerror: the promise rejects
OnError ==
    /\ pc = "pending"
    /\ settled' = Append(settled, Settlement("reject", LoadError, None))
    /\ pc' = "rejected"
    /\ UNCHANGED <<profile, filename, width, height, pixels, analyses, classification, result, appVars>>

Next == OnLoad \/ OnLoadNoPixelData \/ OnError

Spec == Init /\ [][Next]_vars

-----------------------------------------------------------------------------
(* The same file analysed again and again: every call runs the whole pipeline
   on the same buffer, dimensions and name *)

InitRerun == Init

\* one call whose image loads and whose pixel data is read
Analyze ==
    /\ Len(settled) < MaxRuns
    /\ \E out \in {IF profile = "clinical"
                    THEN performClinicalImageAnalysis(pixels, filename, width, height)
                    ELSE performPerfectImageAnalysis(pixels, filename, width, height)} :
           /\ analyses' = out.analyses
           /\ classification' = out.classification
           /\ result' = out.result
           /\ settled' = Append(settled, Settlement("resolve", out.result, out))
    /\ pc' = "resolved"
    /\ UNCHANGED <<profile, filename, width, height, pixels, appVars>>

NextRerun == Analyze

SpecRerun == InitRerun /\ [][NextRerun]_vars

-----------------------------------------------------------------------------
(* The extractors on their own: every buffer of the test images, the buffers of
   zero-area images included *)

\* what the four extractors of a profile return for a buffer
ExtractedFrom(p, name, px, w, h) ==
    IF p = "clinical"
    THEN [ filename |-> analyzeMedicalFilename(name),
           visual |-> performAdvancedVisualAnalysis(px, w, h),
           structural |-> analyzeAnatomicalStructure(px, w, h),
           texture |-> performTextureAnalysis(px, w, h) ]
    ELSE [ filename |-> analyzeFilenamePerfect(name),
           visual |-> analyzeVisualCharacteristicsPerfect(px, w, h),
           structural |-> analyzeImageStructurePerfect(px, w, h),
           texture |-> analyzeTexturePatternsPerfect(px, w, h) ]

InitExtract ==
    /\ profile \in Profiles
    /\ filename \in FileNames
    /\ width \in 0..MaxW
    /\ height \in 0..MaxH
    /\ \E kind \in ImageKinds, a \in Palette, b \in Palette :
           pixels = Buffer(kind, a, b, width, height)
    /\ pc = "decoded"
    /\ analyses = None
    /\ classification = None
    /\ result = None
    /\ settled = <<>>
    /\ AppInitial

\* the first four calls of perform*ImageAnalysis
Extract ==
    /\ pc = "decoded"
    /\ analyses' = ExtractedFrom(profile, filename, pixels, width, height)
    /\ pc' = "extracted"
    /\ UNCHANGED <<profile, filename, width, height, pixels, classification, result, settled, appVars>>

NextExtract == Extract

SpecExtract == InitExtract /\ [][NextExtract]_vars

-----------------------------------------------------------------------------
(* The classification of extracted features: the extractors' outputs are drawn
   from value sets that straddle every threshold the rules test *)

\* "xray.png"
XrayPng == <<"x", "r", "a", "y", ".", "p", "n", "g">>
\* "brain_chest.png"
BrainChestPng == <<"b", "r", "a", "i", "n", "_", "c", "h", "e", "s", "t", ".", "p", "n", "g">>

FeatureFileNames == {PhotoPng, BrainMriScanPng, ChestXrayPng, XrayPng, BrainChestPng}

\* <<darkPixels, brightPixels>> out of 20 pixels
BandCounts == { <<0, 0>>, <<0, 7>>, <<10, 4>>, <<13, 4>>, <<15, 2>>, <<18, 0>> }
BrightnessValues == {60, 90, 140}
\* squared contrasts in 1/10000: contrast 0.2, 0.35, 0.5, 0.72
Contrast2Values == {400, 1225, 2500, 5184}
\* edge densities in hundredths
EdgeDensityValues == {10, 27, 35, 55}
\* <<width, height>>: aspect ratios 1, 1.25, 1.5, 0.75, 0.5
AspectDims == { <<1, 1>>, <<5, 4>>, <<3, 2>>, <<3, 4>>, <<1, 2>> }
\* symmetry scores in tenths
SymmetryValues == {5, 9}
RoughnessValues == {10, 45, 70}
LocalVarianceValues == {10, 130}

\* measurements no buffer can produce are left out: the mean brightness lies
\* between the least and the greatest mean its dark, medium and bright pixel
\* counts allow, and the variance of values in lo..hi with mean m is at most
\* (m - lo) * (hi - m)
Feasible(p, bands, brightness, contrast2) ==
    LET dark == bands[1]
        bright == bands[2]
        medium == 20 - dark - bright
        T == IF p = "clinical" THEN DarkThresholdClinical ELSE DarkThresholdPerfect
        lo == IF dark > 0 THEN 0 ELSE IF medium > 0 THEN T ELSE BrightThreshold + 1
        hi == IF bright > 0 THEN 255 ELSE IF medium > 0 THEN BrightThreshold ELSE T - 1
    IN  /\ 20 * brightness >= medium * T + bright * (BrightThreshold + 1)
        /\ 20 * brightness <= dark * (T - 1) + medium * BrightThreshold + bright * 255
        /\ contrast2 * 16384 <= 10000 * (brightness - lo) * (hi - brightness)

\* the extractors' outputs for the drawn measurements
ExtractedFeatures(p, fileScores, bands, brightness, contrast2, edgeDensity, w, h, symmetry, roughness, localVariance) ==
    LET m == [ brightness |-> Q(brightness, 1), contrast2 |-> Q(contrast2, 10000),
               edgeDensity |-> Q(edgeDensity, 100),
               darkRatio |-> Q(bands[1], 20), brightRatio |-> Q(bands[2], 20),
               mediumRatio |-> Q(20 - bands[1] - bands[2], 20) ]
        centerMass == [x |-> Q(1, 2), y |-> Q(1, 2)]
    IN  IF p = "clinical"
        THEN [ filename |-> fileScores,
               visual |-> VisualFeatures(m),
               structural |-> StructuralFeatures(Q(w, h), centerMass, Q(symmetry, 10), Q(symmetry, 10)),
               texture |-> TextureFeatures(Q(roughness, 1), Q(localVariance, 1)) ]
        ELSE [ filename |-> fileScores,
               visual |-> VisualFeatures(m),
               structural |-> StructuralFeaturesPerfect(Q(w, h), centerMass, Q(symmetry, 10), Q(symmetry, 10)),
               texture |-> TextureFeaturesPerfect(Q(roughness, 1), Q(localVariance, 1)) ]

InitFeatures ==
    /\ pixels = <<>>
    /\ pc = "extracted"
    /\ classification = None
    /\ result = None
    /\ settled = <<>>
    /\ AppInitial
    /\ \E p \in Profiles, name \in FeatureFileNames :
         LET fileScores == IF p = "clinical" THEN analyzeMedicalFilename(name)
                           ELSE analyzeFilenamePerfect(name)
         IN  /\ profile = p
             /\ filename = name
             /\ \E d \in AspectDims, bands \in BandCounts, brightness \in BrightnessValues,
                   contrast2 \in Contrast2Values, edgeDensity \in EdgeDensityValues,
                   symmetry \in SymmetryValues, roughness \in RoughnessValues,
                   localVariance \in LocalVarianceValues :
                    /\ Feasible(p, bands, brightness, contrast2)
                    /\ width = d[1]
                    /\ height = d[2]
                    /\ analyses = ExtractedFeatures(p, fileScores, bands, brightness, contrast2, edgeDensity,
                                            d[1], d[2], symmetry, roughness, localVariance)

\* the rest of perform*ImageAnalysis once the extractors have returned
ClassifyExtracted ==
    /\ pc = "extracted"
    /\ LET ex == analyses
           an == IF profile = "clinical"
                 THEN ClinicalAnalyses(ex.filename, ex.visual, ex.structural, ex.texture,
                                       ClinicalClassification(ex.visual, ex.structural, ex.texture))
                 ELSE PerfectAnalyses(ex.filename, ex.visual, ex.structural, ex.texture,
                                      [features |-> AnatomicalFeatures(ex.visual, ex.structural)],
                                      MedicalClassification(ex.visual, ex.structural, ex.texture))
       IN  \E out \in {Outcome(profile, an)} :
               /\ analyses' = out.analyses
               /\ classification' = out.classification
               /\ result' = out.result
    /\ pc' = "resolved"
    /\ UNCHANGED <<profile, filename, width, height, pixels, settled, appVars>>

NextFeatures == ClassifyExtracted

SpecFeatures == InitFeatures /\ [][NextFeatures]_vars

-----------------------------------------------------------------------------
(* Files named after every combination of keywords, one keyword per pattern
   group of the two filename scorers, analysed with a buffer on which no rule
   fires and with one on which the pathology bonus is given *)

\* one keyword of each pattern group, in the order they are put into a name;
\* none of them, and no concatenation of them, matches another group
Keywords ==
    << <<"c", "h", "e", "s", "t">>, <<"b", "r", "a", "i", "n">>, <<"c", "t">>,
       <<"b", "o", "n", "e">>, <<"x", "r", "a", "y">>, <<"e", "c", "h", "o">>,
       <<"l", "i", "v", "e", "r">>, <<"m", "a", "m", "m", "o">>,
       <<"d", "e", "n", "t", "a", "l">> >>

RECURSIVE KeywordName(_, _)
\* file.name for the chosen keywords: img_<keyword>_<keyword>... .png
KeywordName(chosen, i) ==
    IF i > Len(Keywords) THEN <<".", "p", "n", "g">>
    ELSE (IF i \in chosen THEN <<"_">> \o Keywords[i] ELSE <<>>) \o KeywordName(chosen, i + 1)

KeywordNames == {<<"i", "m", "g">> \o KeywordName(chosen, 1) : chosen \in SUBSET (DOMAIN Keywords)}

InitNames ==
    /\ profile \in Profiles
    /\ filename \in KeywordNames
    /\ \/ width = 1 /\ height = 1 /\ pixels = Buffer("uniform", Gray, Gray, 1, 1)
       \/ width = 2 /\ height = 2 /\ pixels = Buffer("columns", Tint, White, 2, 2)
    /\ pc = "pending"
    /\ analyses = None
    /\ classification = None
    /\ result = None
    /\ settled = <<>>
    /\ AppInitial

SpecNames == InitNames /\ [][Next]_vars

-----------------------------------------------------------------------------
(* The pathology scorer on its own, on the visual features of measurements
   drawn from value sets that straddle the thresholds of its rules *)

\* <<darkPixels, brightPixels>> out of 20 pixels
PathologyBandCounts ==
    BandCounts \cup { <<0, 20>>, <<0, 12>>, <<7, 7>>, <<16, 0>>, <<19, 0>>, <<20, 0>> }
PathologyBrightnessValues == BrightnessValues \cup {10, 30, 110, 201, 255}
\* squared contrasts in 1/10000: contrast 0, 0.2, 0.35, 0.5, 0.72
PathologyContrast2Values == Contrast2Values \cup {0}

InitPathology ==
    /\ profile = "clinical"
    /\ filename = PhotoPng
    /\ width = 5
    /\ height = 4
    /\ pixels = <<>>
    /\ pc = "measured"
    /\ classification = None
    /\ result = None
    /\ settled = <<>>
    /\ AppInitial
    /\ \E bands \in PathologyBandCounts, brightness \in PathologyBrightnessValues,
          contrast2 \in PathologyContrast2Values, edgeDensity \in EdgeDensityValues :
           /\ Feasible("clinical", bands, brightness, contrast2)
           /\ analyses = [ visual |-> VisualFeatures(
                              [ brightness |-> Q(brightness, 1), contrast2 |-> Q(contrast2, 10000),
                                edgeDensity |-> Q(edgeDensity, 100),
                                darkRatio |-> Q(bands[1], 20), brightRatio |-> Q(bands[2], 20),
                                mediumRatio |-> Q(20 - bands[1] - bands[2], 20) ]) ]

\* the call detectPathologies(pixels, width, height, visualAnalysis)
DetectPathologies ==
    /\ pc = "measured"
    /\ analyses' = [ visual |-> analyses.visual, pathology |-> detectPathologies(analyses.visual) ]
    /\ pc' = "detected"
    /\ UNCHANGED <<profile, filename, width, height, pixels, classification, result, settled, appVars>>

NextPathology == DetectPathologies

SpecPathology == InitPathology /\ [][NextPathology]_vars

-----------------------------------------------------------------------------
(* The App and ChatInterface components: uploads and the chat *)

\* bounds of the exploration
MaxUploads == 3
MaxSends == 2

ReportPdf == <<"r", "e", "p", "o", "r", "t", ".", "p", "d", "f">>
LabsPdf == <<"l", "a", "b", "s", ".", "p", "d", "f">>

\* the files dropped: name and MIME type (split at the slash) of the File, and
\* for an image the size and pixels its decoding gives
Files ==
    { [ name |-> ChestXrayPng, type |-> <<"image", "png">>,
        width |-> 1, height |-> 1, pixels |-> <<Black>> ],
      [ name |-> ReportPdf, type |-> <<"application", "pdf">>,
        width |-> 0, height |-> 0, pixels |-> <<>> ],
      [ name |-> LabsPdf, type |-> <<"application", "pdf">>,
        width |-> 0, height |-> 0, pixels |-> <<>> ] }

\* what the user can have in the input box
Texts == { <<>>, <<" ">>, <<"h", "i">> }

\* !inputValue.trim(): nothing is left of the text without its white space
IsBlank(text) == \A i \in 1..Len(text) : text[i] = " "

\* the fields of generateClinicalPDFDiagnosis's record that the components read
generateClinicalPDFDiagnosis(fileName) ==
    [ diagnosis |-> <<"Comprehensive clinical report analysis completed">>,
      confidence |-> 94,
      urgency |-> "medium",
      imageType |-> "medical-report-pdf",
      technicalDetails |->
          [ anatomicalRegion |-> "Document-based comprehensive analysis",
            imagingModality |-> "Medical report/Laboratory results/Clinical documentation" ] ]

\* the record the catch clause of handleFileUpload sets
FallbackDiagnosis ==
    [ diagnosis |-> <<"Clinical analysis failed - please try again with a clearer medical image">>,
      confidence |-> 0,
      urgency |-> "low",
      technicalDetails |-> [ anatomicalRegion |-> "Unknown",
                             imagingModality |-> "Could not determine" ] ]

\* the greeting the file effect sets, id '1'
Greeting == [sender |-> "ai", kind |-> "greeting", n |-> 1]

\* the 'Clinical Analysis Complete' message of the confidence effect; n is the
\* confidence it quotes
ContextMessage(data) == [sender |-> "ai", kind |-> "context", n |-> data.confidence]

\* the component state one commit renders
Rendered ==
    [ uploadedFile |-> uploadedFile, diagnosisData |-> diagnosisData,
      isAnalyzing |-> isAnalyzing, messages |-> messages ]

\* the message list after the effects of ChatInterface ran for a commit of the
\* state next after a commit of prev: each effect runs when its dependency,
\* uploadedFile?.file.name resp. diagnosisData?.confidence, has changed; the
\* file effect queues its update first
ChatEffects(prev, next) ==
    LET name(u) == IF u = None THEN <<>> ELSE u.file.name
        confidence(d) == IF d = None THEN -1 ELSE d.confidence
        greeted == IF name(next.uploadedFile) # name(prev.uploadedFile)
                      /\ next.uploadedFile # None
                   THEN <<Greeting>> ELSE next.messages
    IN  IF /\ confidence(next.diagnosisData) # confidence(prev.diagnosisData)
           /\ next.uploadedFile # None
           /\ next.diagnosisData # None
           /\ next.diagnosisData.confidence > 0
        THEN Append(greeted, ContextMessage(next.diagnosisData))
        ELSE greeted

\* the component state after the setState calls `updates`, made in one task
\* without an await between them, starting from the committed state s: with
\* automatic batching they are committed together, otherwise each call is
\* committed, and its effects run, before the next call
SetStates(s, updates) ==
    LET set(t, u) == [t EXCEPT ![u[1]] = u[2]]
        commit(prev, next) == [next EXCEPT !.messages = ChatEffects(prev, next)]
        RECURSIVE setAll(_, _)
        setAll(t, us) == IF us = <<>> THEN t ELSE setAll(set(t, Head(us)), Tail(us))
        RECURSIVE commitEach(_, _)
        commitEach(t, us) ==
            IF us = <<>> THEN t ELSE commitEach(commit(t, set(t, Head(us))), Tail(us))
    IN  IF automaticBatching THEN commit(s, setAll(s, updates)) ELSE commitEach(s, updates)

\* URL.createObjectURL(file): a URL no earlier call returned
NextPreview == IF uploadedFile = None THEN 1 ELSE uploadedFile.preview + 1

\* handleFileUpload(file) up to its await, or to its end for a PDF, where
\* nothing is awaited; for an image analyzeMedicalImageClinical creates the
\* promise and starts loading the image
handleFileUpload(file) ==
    LET fileType == IF file.type[1] = "image" THEN "image" ELSE "pdf"
        newUploadedFile == [file |-> file, preview |-> NextPreview, type |-> fileType]
        beforeTry == << <<"uploadedFile", None>>, <<"diagnosisData", None>>,
                        <<"uploadedFile", newUploadedFile>>, <<"isAnalyzing", TRUE>> >>
        pdfBranch == << <<"diagnosisData", generateClinicalPDFDiagnosis(file.name)>>,
                        <<"isAnalyzing", FALSE>> >>
    IN  /\ \E ui \in {SetStates(Rendered, IF fileType = "image" THEN beforeTry
                                          ELSE beforeTry \o pdfBranch)} :
               /\ uploadedFile' = ui.uploadedFile
               /\ diagnosisData' = ui.diagnosisData
               /\ isAnalyzing' = ui.isAnalyzing
               /\ messages' = ui.messages
        /\ IF fileType = "image"
           THEN /\ awaiting' = TRUE
                /\ filename' = file.name
                /\ width' = file.width
                /\ height' = file.height
                /\ pixels' = file.pixels
                /\ pc' = "pending"
                /\ analyses' = None
                /\ classification' = None
                /\ result' = None
                /\ settled' = <<>>
                /\ UNCHANGED profile
           ELSE UNCHANGED <<awaiting, imageVars>>
        /\ UNCHANGED <<automaticBatching, inputValue, isTyping, timers, sent>>

\* a drop zone that accepts a file whatever isAnalyzing is
onDropWhileAnalyzing ==
    /\ NextPreview <= MaxUploads
    /\ \E file \in Files : handleFileUpload(file)

\* FileUpload's onDrop: the drop zone is disabled while isAnalyzing, and hands
\* the first accepted file to handleFileUpload
onDrop ==
    /\ ~isAnalyzing
    /\ NextPreview <= MaxUploads
    /\ \E file \in Files : handleFileUpload(file)

\* a continuation whose catch clause sets the fallback record and that has no
\* finally clause
ResumeWithoutFinally ==
    /\ awaiting
    /\ pc \in {"resolved", "rejected"}
    /\ \E ui \in {SetStates(Rendered,
                     IF settled[1].outcome = "resolve"
                     THEN << <<"diagnosisData", settled[1].value>>, <<"isAnalyzing", FALSE>> >>
                     ELSE << <<"diagnosisData", FallbackDiagnosis>> >>)} :
           /\ diagnosisData' = ui.diagnosisData
           /\ isAnalyzing' = ui.isAnalyzing
           /\ messages' = ui.messages
    /\ awaiting' = FALSE
    /\ UNCHANGED <<imageVars, automaticBatching, uploadedFile, inputValue, isTyping, timers, sent>>

\* handleFileUpload after its await: the promise has settled; the fields of
\* the result are copied into diagnosisData, or the catch clause sets the
\* fallback record; finally isAnalyzing is reset
ResumeHandleFileUpload ==
    /\ awaiting
    /\ pc \in {"resolved", "rejected"}
    /\ \E ui \in {SetStates(Rendered,
                     << <<"diagnosisData", IF settled[1].outcome = "resolve"
                                           THEN settled[1].value ELSE FallbackDiagnosis>>,
                        <<"isAnalyzing", FALSE>> >>)} :
           /\ diagnosisData' = ui.diagnosisData
           /\ isAnalyzing' = ui.isAnalyzing
           /\ messages' = ui.messages
    /\ awaiting' = FALSE
    /\ UNCHANGED <<imageVars, automaticBatching, uploadedFile, inputValue, isTyping, timers, sent>>

\* the textarea's onChange, and the suggestion buttons: the input box gets a text
onChange ==
    /\ \E text \in Texts \ {inputValue} : inputValue' = text
    /\ UNCHANGED <<imageVars, automaticBatching, uploadedFile, diagnosisData, isAnalyzing,
                   awaiting, messages, isTyping, timers, sent>>

\* handleSendMessage with a text that is not blank: the user message is
\* appended, the input cleared, isTyping set and the response timer started
handleSendMessage ==
    /\ ~IsBlank(inputValue)
    /\ sent < MaxSends
    /\ messages' = Append(messages, [sender |-> "user", kind |-> "user", n |-> sent + 1])
    /\ inputValue' = <<>>
    /\ isTyping' = TRUE
    /\ timers' = timers \cup {sent + 1}
    /\ sent' = sent + 1
    /\ UNCHANGED <<imageVars, automaticBatching, uploadedFile, diagnosisData, isAnalyzing, awaiting>>

\* a click on the send button, which is disabled for a blank text and while isTyping
onClick ==
    /\ ~isTyping
    /\ handleSendMessage

\* the key presses in the input box
KeyEvents ==
    { [key |-> "Enter", shiftKey |-> FALSE], [key |-> "Enter", shiftKey |-> TRUE],
      [key |-> "a", shiftKey |-> FALSE] }

\* handleKeyPress: Enter without shift sends, whatever isTyping is
handleKeyPress ==
    \E e \in KeyEvents :
        /\ e.key = "Enter" /\ ~e.shiftKey
        /\ handleSendMessage

\* the setTimeout callback of the message with id n: the response is appended
\* and isTyping reset
onTimeout ==
    /\ \E n \in timers :
           /\ messages' = Append(messages, [sender |-> "ai", kind |-> "response", n |-> n])
           /\ timers' = timers \ {n}
    /\ isTyping' = FALSE
    /\ UNCHANGED <<imageVars, automaticBatching, uploadedFile, diagnosisData, isAnalyzing,
                   awaiting, inputValue, sent>>

InitApp ==
    /\ profile = "clinical"
    /\ filename = <<>>
    /\ width = 0
    /\ height = 0
    /\ pixels = <<>>
    /\ pc = "idle"
    /\ analyses = None
    /\ classification = None
    /\ result = None
    /\ settled = <<>>
    /\ automaticBatching \in BOOLEAN
    /\ Mounted

NextApp ==
    \/ onDrop
    \/ OnLoad
    \/ OnLoadNoPixelData
    \/ OnError
    \/ ResumeHandleFileUpload
    \/ onChange
    \/ onClick
    \/ handleKeyPress
    \/ onTimeout

SpecApp == InitApp /\ [][NextApp]_vars

\* a pending image load settles, the continuation of a settled promise is run,
\* and a timer that was set fires.  The three load handlers are enabled exactly
\* while the promise is pending and each of them ends that, so weak fairness
\* of the two rejecting handlers says no more than that the promise does not
\* stay pending for ever: a run in which onload settles it satisfies it too
SpecAppLive ==
    /\ SpecApp
    /\ WF_vars(OnLoadNoPixelData \/ OnError)
    /\ WF_vars(ResumeHandleFileUpload)
    /\ WF_vars(onTimeout)

-----------------------------------------------------------------------------
(* Properties *)

Resolved == pc = "resolved"
ExtractorsDone == pc = "extracted"
ClinicalProfile == profile = "clinical"

\* the left-right symmetry score under the name the profile gives it
BilateralOf(an) == IF ClinicalProfile THEN an.structural.bilateralSymmetry ELSE an.structural.symmetry

ModalityOrder == IF ClinicalProfile THEN ClinicalModalities ELSE PerfectModalities

\* C1: the confidence of every returned result is an integer of the profile's
\* band, 80..97 in the clinical and 75..98 in the perfect profile, whatever the
\* raw maximum score is (below the floor, inside the band or above the cap)
C1_ConfidenceInBand ==
    Resolved =>
        IF ClinicalProfile
        THEN result.confidence \in ConfidenceFloorClinical..ConfidenceCapClinical
        ELSE result.confidence \in ConfidenceFloorPerfect..ConfidenceCapPerfect

\* a perfect-profile run whose raw maximum score is above the cap
C1_AboveCap ==
    /\ Resolved
    /\ ~ClinicalProfile
    /\ classification.maxScore > ConfidenceCapPerfect * 100
    /\ result.confidence = ConfidenceCapPerfect

\* no filename pattern matched
NoKeyword == \A k \in DOMAIN analyses.filename : analyses.filename[k] = 0

\* the buffer conditions C2 lists, in the clinical profile
ChestLike ==
    LET v == analyses.visual
        ar == analyses.structural.aspectRatio
    IN  /\ ClinicalProfile
        /\ NoKeyword
        /\ Gt(v.darkRatio, 6, 10) /\ Lt(v.darkRatio, 8, 10)
        /\ Gt(v.contrast2, 9, 100)
        /\ Gt(ar, 12, 10) /\ Lt(ar, 18, 10)
        /\ Gt(v.edgeDensity, 25, 100)

\* the bone-xray rule holds and the chest-xray rule does not: contrast > 0.6,
\* brightRatio > 0.15, roughness > 60 and a mean brightness of 80 or more
BoneRuleAlone ==
    LET v == analyses.visual
    IN  /\ Gt(v.contrast2, 36, 100)
        /\ Gt(v.brightRatio, 15, 100)
        /\ Gt(analyses.texture.roughness, 60, 1)
        /\ Ge(v.brightness, 80, 1)

BrainMriScanInput ==
    /\ ClinicalProfile
    /\ filename = BrainMriScanPng
    /\ width = height
    /\ Gt(analyses.structural.bilateralSymmetry, 7, 10)
    /\ Ge(analyses.visual.brightness, 80, 1) /\ Le(analyses.visual.brightness, 180, 1)
    /\ Gt(analyses.visual.contrast2, 36, 100)

\* C3: in the clinical profile brain_mri_scan.png with a square, symmetric,
\* medium-brightness, high-contrast image is classified brain-mri with a
\* confidence of at least 80, whatever the other features are
C3_BrainMriScan ==
    (Resolved /\ BrainMriScanInput) =>
        /\ classification.type = "brain-mri"
        /\ result.imageType = "brain-mri"
        /\ result.confidence >= 80

\* such an input on which the name also matched the ct pattern and the ct-scan
\* rule fired as well
C3_BrainOverCt ==
    /\ Resolved
    /\ BrainMriScanInput
    /\ analyses.filename.brain > 0
    /\ analyses.filename.ct > 0
    /\ analyses.clinical["ct-scan"] > 0
    /\ classification.type = "brain-mri"

\* C4 as stated: when every one of the 9 modality scores is 0 the classifier
\* selects unknown
C4_AllZeroIsUnknown ==
    (Resolved /\ \A m \in Modalities : classification.scores[m] = 0) =>
        classification.type = "unknown"

\* C5: the selected modality has the maximum score, and no modality declared
\* before it in the profile's list has that score
C5_FirstDeclaredMaximum ==
    Resolved =>
        \E i \in DOMAIN ModalityOrder :
            /\ ModalityOrder[i] = classification.type
            /\ \A m \in Modalities : classification.scores[m] <= classification.scores[ModalityOrder[i]]
            /\ \A j \in 1..(i - 1) :
                   classification.scores[ModalityOrder[j]] < classification.scores[ModalityOrder[i]]

\* two modalities share a positive maximum and the selected one is not the
\* first of the list
C5_PositiveTie ==
    /\ Resolved
    /\ classification.maxScore > 0
    /\ Cardinality({m \in Modalities : classification.scores[m] = classification.maxScore}) >= 2
    /\ classification.type # ModalityOrder[1]

\* the names of the pathologies whose score is above 0.3
Qualifying(p) ==
    {PathologyNames[i] : i \in {j \in DOMAIN PathologyNames : p.pathologies[PathologyNames[j]] > 30}}

\* C6: topPathologies has at most 5 entries, in non-increasing score order, each
\* a distinct pathology with its score, each score above 0.3; it holds every
\* such pathology, or the 5 highest when more than 5 qualify
C6_TopPathologies ==
    (Resolved /\ ClinicalProfile) =>
        LET p == analyses.pathology
            top == p.topPathologies
            listed == {top[i][1] : i \in DOMAIN top}
        IN  /\ Len(top) <= 5
            /\ \A i \in 1..(Len(top) - 1) : top[i][2] >= top[i + 1][2]
            /\ \A i \in DOMAIN top : top[i][2] > 30 /\ top[i][2] = p.pathologies[top[i][1]]
            /\ Cardinality(listed) = Len(top)
            /\ listed \subseteq Qualifying(p)
            /\ IF Cardinality(Qualifying(p)) <= 5
               THEN listed = Qualifying(p)
               ELSE /\ Len(top) = 5
                    /\ \A n \in Qualifying(p) \ listed :
                           \A i \in DOMAIN top : p.pathologies[n] <= top[i][2]

\* more than 5 pathologies qualify
C6_MoreThanFive ==
    /\ Resolved
    /\ ClinicalProfile
    /\ Cardinality(Qualifying(analyses.pathology)) > 5
    /\ Len(analyses.pathology.topPathologies) = 5

\* C7: on a non-empty buffer the dark, bright and medium counts add up to the
\* pixel count, so the three ratios add up to 1, under both dark thresholds
C7_BandsPartition ==
    (ExtractorsDone /\ Len(pixels) > 0) =>
        LET v == analyses.visual
        IN  /\ v.darkRatio.d = Len(pixels)
            /\ v.brightRatio.d = Len(pixels)
            /\ v.mediumRatio.d = Len(pixels)
            /\ v.darkRatio.n + v.brightRatio.n + v.mediumRatio.n = Len(pixels)

\* a buffer with pixels in all three bands, one of them dark under the
\* threshold 60 only
C7_ThreeBands ==
    /\ ExtractorsDone
    /\ ~ClinicalProfile
    /\ analyses.visual.darkRatio.n > 0
    /\ analyses.visual.brightRatio.n > 0
    /\ analyses.visual.mediumRatio.n > 0
    /\ \E i \in DOMAIN pixels : pixels[i] = Dim

\* all pixels identical
Uniform == \A i \in DOMAIN pixels : pixels[i] = pixels[1]

\* C8 as stated: a uniform buffer of width >= 1 and height >= 1 has contrast 0,
\* roughness 0 and both symmetry scores 1
C8_UniformAllDims ==
    (ExtractorsDone /\ Uniform /\ width >= 1 /\ height >= 1) =>
        /\ IsZero(analyses.visual.contrast2)
        /\ IsZero(analyses.texture.roughness)
        /\ IsOne(BilateralOf(analyses))
        /\ IsOne(analyses.structural.verticalSymmetry)

\* C8 amended: a uniform buffer of width >= 1 and height >= 1 has contrast 0 and
\* roughness 0; its bilateral symmetry is 1 if width >= 2 and 0 if width = 1,
\* its vertical symmetry 1 if height >= 2 and 0 if height = 1
C8_UniformTwoByTwo ==
    (ExtractorsDone /\ Uniform /\ width >= 1 /\ height >= 1) =>
        /\ IsZero(analyses.visual.contrast2)
        /\ IsZero(analyses.texture.roughness)
        /\ IF width >= 2 THEN IsOne(BilateralOf(analyses)) ELSE IsZero(BilateralOf(analyses))
        /\ IF height >= 2 THEN IsOne(analyses.structural.verticalSymmetry)
           ELSE IsZero(analyses.structural.verticalSymmetry)

\* a uniform buffer that is not black and is large enough for the texture
\* loop to visit a centre
C8_UniformTextured ==
    /\ ExtractorsDone
    /\ Uniform
    /\ width >= 5 /\ height >= 5
    /\ pixels[1] # Black
    /\ IsOne(BilateralOf(analyses))

\* pixel (x, y) equals pixel (width - 1 - x, y) for all x, y
Mirrored ==
    \A x \in 0..(width - 1), y \in 0..(height - 1) :
        pixels[y * width + x + 1] = pixels[y * width + (width - 1 - x) + 1]

\* C9 as stated: a non-empty buffer mirrored about its vertical midline has
\* bilateral symmetry exactly 1, whatever its content and dimensions
C9_MirroredIsOne ==
    (ExtractorsDone /\ Mirrored /\ Len(pixels) > 0) => IsOne(BilateralOf(analyses))

\* C9 amended: a mirrored buffer has bilateral symmetry exactly 1 if it is at
\* least 2 pixels wide and 1 pixel high, and 0 otherwise
C9_MirroredTwoWide ==
    (ExtractorsDone /\ Mirrored) =>
        IF width >= 2 /\ height >= 1 THEN IsOne(BilateralOf(analyses))
        ELSE IsZero(BilateralOf(analyses))

\* a mirrored buffer that is not uniform
C9_MirroredPattern ==
    /\ ExtractorsDone
    /\ Mirrored
    /\ ~Uniform
    /\ width >= 3
    /\ IsOne(BilateralOf(analyses))

\* C10: contrast, both symmetry scores, uniformity and textureComplexity lie in
\* [0, 1] for every buffer, of any dimensions
C10_UnitInterval ==
    ExtractorsDone =>
        /\ In01(analyses.visual.contrast2)
        /\ In01(BilateralOf(analyses))
        /\ In01(analyses.structural.verticalSymmetry)
        /\ In01(analyses.texture.uniformity)
        /\ In01(analyses.texture.textureComplexity)

\* a buffer whose (roughness + localVariance) / 200 is above 1
C10_ComplexityClamped ==
    /\ ExtractorsDone
    /\ Gt(analyses.texture.roughness, 100, 1)
    /\ Gt(analyses.texture.localVariance, 100, 1)
    /\ IsOne(analyses.texture.textureComplexity)

\* a number, as opposed to NaN and Infinity
IsFinite(q) == q.d > 0

\* C11 as stated: on a buffer of zero pixels the visual extractor returns 0 for
\* brightness, contrast, edgeDensity, darkRatio, brightRatio and mediumRatio
C11_ZeroPixelsAllZero ==
    (ExtractorsDone /\ Len(pixels) = 0) =>
        LET v == analyses.visual
        IN  /\ IsZero(v.brightness)
            /\ IsZero(v.contrast2)
            /\ IsZero(v.edgeDensity)
            /\ IsZero(v.darkRatio)
            /\ IsZero(v.brightRatio)
            /\ IsZero(v.mediumRatio)

\* C12 as stated: on a zero-area image the aspect ratio and both centre of mass
\* coordinates are numbers, both symmetry scores are 0, and roughness and
\* localVariance are 0
C12_ZeroAreaNeutral ==
    (ExtractorsDone /\ (width = 0 \/ height = 0)) =>
        /\ IsFinite(analyses.structural.aspectRatio)
        /\ IsFinite(analyses.structural.centerMass.x)
        /\ IsFinite(analyses.structural.centerMass.y)
        /\ IsZero(BilateralOf(analyses))
        /\ IsZero(analyses.structural.verticalSymmetry)
        /\ IsZero(analyses.texture.roughness)
        /\ IsZero(analyses.texture.localVariance)

AllChestEvidence ==
    IF ClinicalProfile
    THEN /\ analyses.filename.chest > 0
         /\ analyses.clinical["chest-xray"] > 0
         /\ analyses.pathology.hasPathology
         /\ analyses.pathology.topPathologies[1][1] \in
              {"pneumonia", "atelectasis", "cardiomegaly", "pleural_effusion"}
    ELSE /\ analyses.filename.chest > 0
         /\ analyses.filename.xray > 0
         /\ analyses.medical["chest-xray"] > 0
         /\ Includes(analyses.anatomical.features, "rib-cage-structure")

\* C15 as stated: an input on which the file name, the classification rule and
\* the third component all speak for one modality gives that modality an
\* accumulated score above 1.0
C15_FullEvidenceAboveOne ==
    (Resolved /\ AllChestEvidence) => classification.scores["chest-xray"] > 10000

\* C15 amended: no modality's accumulated score is above 1.0; the scores are at
\* most 0.91 in the clinical and 0.995 in the perfect profile, and chest-xray
\* has exactly that score when every component speaks for it
C15_ScoresBelowOne ==
    Resolved =>
        /\ \A m \in Modalities :
               classification.scores[m] <= (IF ClinicalProfile THEN 9100 ELSE 9950)
        /\ AllChestEvidence =>
               classification.scores["chest-xray"] = (IF ClinicalProfile THEN 9100 ELSE 9950)

\* a clinical run in which every component speaks for chest-xray
C15_ClinicalMaximum ==
    /\ Resolved
    /\ ClinicalProfile
    /\ AllChestEvidence
    /\ classification.maxScore = 9100

Detected == pc = "detected"

\* the highest of the 16 pathology scores
BestPathologyScore(p) ==
    CHOOSE v \in {p.pathologies[PathologyNames[i]] : i \in DOMAIN PathologyNames} :
        \A i \in DOMAIN PathologyNames : p.pathologies[PathologyNames[i]] <= v

\* C16: hasPathology is true iff topPathologies is not empty and its first
\* entry, which carries the highest of all pathology scores, is above 0.5;
\* confidence is that score, and 0 when the list is empty
C16_HasPathology ==
    Detected =>
        LET p == analyses.pathology
            top == p.topPathologies
        IN  /\ p.hasPathology <=> (Len(top) > 0 /\ top[1][2] > 50)
            /\ Len(top) > 0 => (top[1][2] = BestPathologyScore(p) /\ p.confidence = top[1][2])
            /\ Len(top) = 0 => (BestPathologyScore(p) <= 30 /\ p.confidence = 0)
            /\ p.hasPathology <=> BestPathologyScore(p) > 50

\* the list is not empty and its first entry has a score of exactly 0.5: no
\* pathology is reported
C16_TopAtThreshold ==
    /\ Detected
    /\ Len(analyses.pathology.topPathologies) > 0
    /\ analyses.pathology.topPathologies[1][2] = 50
    /\ ~analyses.pathology.hasPathology
    /\ analyses.pathology.confidence = 50

\* the pathologies whose presence at the top of the list earns chest-xray the bonus
ChestPathologies == {"pneumonia", "atelectasis", "cardiomegaly", "pleural_effusion"}

\* the first entry of topPathologies is one of the four chest pathologies
TopIsChestPathology ==
    /\ Len(analyses.pathology.topPathologies) > 0
    /\ analyses.pathology.topPathologies[1][1] \in ChestPathologies

\* what the file name and the classification rules give a modality in the
\* clinical ensemble, in units of 1/10000
BeforeBonus(m) ==
    LET f == analyses.filename
    IN  analyses.clinical[m] * 60 +
        (IF m = "chest-xray" THEN f.chest * 20
         ELSE IF m = "brain-mri" THEN f.brain * 20
         ELSE IF m = "ct-scan" THEN f.ct * 12
         ELSE IF m = "abdominal-ct" THEN f.ct * 8
         ELSE IF m = "bone-xray" THEN f.bone * 15
         ELSE IF m = "spine-xray" THEN f.bone * 5
         ELSE 0)

\* C17: in the clinical ensemble chest-xray is 0.15 above its file name and
\* rule contributions if the top pathology is pneumonia, atelectasis,
\* cardiomegaly or pleural_effusion, and equal to them otherwise (top pathology
\* normal or another one, or an empty list); every other modality's score is
\* its file name and rule contributions
C17_ChestBonus ==
    (Resolved /\ ClinicalProfile) =>
        /\ classification.scores["chest-xray"] =
               BeforeBonus("chest-xray") + (IF TopIsChestPathology THEN 1500 ELSE 0)
        /\ \A m \in Modalities \ {"chest-xray"} : classification.scores[m] = BeforeBonus(m)

\* the bonus is all chest-xray has: no keyword, no rule, pneumonia on top
C17_BonusAlone ==
    /\ Resolved
    /\ ClinicalProfile
    /\ TopIsChestPathology
    /\ BeforeBonus("chest-xray") = 0
    /\ classification.scores["chest-xray"] = 1500
    /\ classification.type = "chest-xray"

\* the keyword occurs in the file name
HasKeyword(word) == \E i \in 1..Len(filename) : OccursAt(filename, word, i)

\* how many of the keywords the file name holds
KeywordCount == Cardinality({i \in DOMAIN Keywords : HasKeyword(Keywords[i])})

\* weight if the keyword is in the name, else 0
Weighted(word, weight) == IF HasKeyword(word) THEN weight ELSE 0

\* the score the groups matched by the name give a modality: each matched
\* group's full weight times the share the ensemble gives it, in units of 1/10000
KeywordPart(m) ==
    IF ClinicalProfile
    THEN CASE m = "chest-xray" -> Weighted(Keywords[1], 95) * 20
           [] m = "brain-mri" -> Weighted(Keywords[2], 95) * 20
           [] m = "ct-scan" -> Weighted(Keywords[3], 90) * 12
           [] m = "abdominal-ct" -> Weighted(Keywords[3], 90) * 8
           [] m = "bone-xray" -> Weighted(Keywords[4], 90) * 15
           [] m = "spine-xray" -> Weighted(Keywords[4], 90) * 5
           [] OTHER -> 0
    ELSE CASE m = "chest-xray" -> Weighted(Keywords[1], 90) * 25 + Weighted(Keywords[5], 80) * 10
           [] m = "brain-mri" -> Weighted(Keywords[2], 90) * 25
           [] m = "ct-scan" -> Weighted(Keywords[3], 80) * 15
           [] m = "abdominal-ct" -> Weighted(Keywords[3], 80) * 10 + Weighted(Keywords[7], 80) * 25
           [] m = "bone-xray" -> Weighted(Keywords[5], 80) * 10 + Weighted(Keywords[4], 80) * 20
           [] m = "spine-xray" -> Weighted(Keywords[5], 80) * 5 + Weighted(Keywords[4], 80) * 5
           [] m = "ultrasound" -> Weighted(Keywords[6], 90) * 25
           [] m = "mammography" -> Weighted(Keywords[8], 90) * 25
           [] m = "dental-xray" -> Weighted(Keywords[9], 90) * 25
           [] OTHER -> 0

\* the scores of the same buffer under a name that matches no pattern
ScoresWithoutKeyword ==
    (IF ClinicalProfile THEN performClinicalImageAnalysis(pixels, PhotoPng, width, height)
     ELSE performPerfectImageAnalysis(pixels, PhotoPng, width, height)).classification.scores

\* C18: every pattern group scores its full weight if the name matches it and
\* 0 if not, whatever other groups match; the name adds to each modality score
\* exactly the shares of the matched groups' weights, and nothing when no group
\* matches
C18_GroupsIndependent ==
    Resolved =>
        LET f == analyses.filename
        IN  /\ IF ClinicalProfile
               THEN f = [ chest |-> Weighted(Keywords[1], 95), brain |-> Weighted(Keywords[2], 95),
                          ct |-> Weighted(Keywords[3], 90), bone |-> Weighted(Keywords[4], 90) ]
               ELSE f = [ chest |-> Weighted(Keywords[1], 90), brain |-> Weighted(Keywords[2], 90),
                          ct |-> Weighted(Keywords[3], 80), bone |-> Weighted(Keywords[4], 80),
                          xray |-> Weighted(Keywords[5], 80), ultrasound |-> Weighted(Keywords[6], 90),
                          abdomen |-> Weighted(Keywords[7], 80), mammography |-> Weighted(Keywords[8], 90),
                          dental |-> Weighted(Keywords[9], 90) ]
            /\ \A m \in Modalities :
                   classification.scores[m] = ScoresWithoutKeyword[m] + KeywordPart(m)
            /\ KeywordCount = 0 => classification.scores = ScoresWithoutKeyword

\* a name that matches all four groups of the clinical scorer, each at its
\* full weight
C18_AllGroupsMatched ==
    /\ Resolved
    /\ ClinicalProfile
    /\ \A i \in 1..4 : HasKeyword(Keywords[i])
    /\ analyses.filename = [chest |-> 95, brain |-> 95, ct |-> 90, bone |-> 90]
    /\ classification.scores["chest-xray"] > 1900

\* every pixel the centre of mass loop samples (even x, even y) is black
SampledBlack ==
    \A x \in 0..(width - 1), y \in 0..(height - 1) :
        (x % CenterMassStride = 0 /\ y % CenterMassStride = 0) => pixels[y * width + x + 1] = Black

\* C19: on a buffer of width >= 1 and height >= 1 both coordinates of the
\* centre of mass lie in [0, 1], and both are 0 when the total mass is 0
C19_CenterMassInUnitSquare ==
    (ExtractorsDone /\ width >= 1 /\ height >= 1) =>
        LET c == analyses.structural.centerMass
        IN  /\ In01(c.x)
            /\ In01(c.y)
            /\ SampledBlack => (IsZero(c.x) /\ IsZero(c.y))

\* the mass lies to the right of the middle of the image
C19_MassOffCentre ==
    /\ ExtractorsDone
    /\ width >= 3 /\ height >= 3
    /\ ~SampledBlack
    /\ Gt(analyses.structural.centerMass.x, 1, 2)
    /\ Gt(analyses.structural.centerMass.y, 0, 1)

\* C20 as stated: no tag occurs more than once in the patterns the texture
\* extractor returns for a buffer of width >= 1 and height >= 1
C20_TagsDistinct ==
    (ExtractorsDone /\ width >= 1 /\ height >= 1) =>
        LET patterns == analyses.texture.patterns
        IN  \A i, j \in DOMAIN patterns : patterns[i] = patterns[j] => i = j

DescribedAs(p, t) ==
    IF p = "clinical"
    THEN [ anatomicalRegion |-> getClinicalAnatomicalRegion(t),
           imagingModality |-> getClinicalImagingModality(t) ]
    ELSE [ anatomicalRegion |-> getAnatomicalRegionPerfect(t),
           imagingModality |-> getImagingModalityPerfect(t) ]

\* C22: the imageType of the returned result is the modality the ensemble
\* selected, whichever of the 9 modalities that is; the result is `unknown`
\* (with urgency medium) only when the classifier selected `unknown`; and
\* technicalDetails describe the modality that imageType names
C22_ImageTypeIsSelected ==
    Resolved =>
        /\ result.imageType = classification.type
        /\ (result.imageType = "unknown" =>
               classification.type = "unknown" /\ result.urgency = "medium")
        /\ result.technicalDetails = DescribedAs(profile, result.imageType)

\* the pathology list of a resolved clinical run starts with the entry `normal`
TopIsNormal ==
    /\ Resolved
    /\ ClinicalProfile
    /\ Len(analyses.pathology.topPathologies) > 0
    /\ analyses.pathology.topPathologies[1] = <<"normal", 90>>

\* C23: a clinical chest-xray result whose highest-scoring pathology entry is
\* `normal` (0.9) reports the normal-chest diagnosis, findings and treatments
\* with urgency low, never an abnormal finding or urgency medium or high; read
\* for the runs in which chest-xray was selected on a positive score
C23_NormalTopReportedNormal ==
    (TopIsNormal /\ result.imageType = "chest-xray" /\ classification.maxScore > 0) =>
        /\ result.diagnosis = generateChestXrayDiagnosis(<<>>)
        /\ result.findings = generateChestXrayFindings(<<>>)
        /\ result.treatments = generateChestXrayTreatments(<<>>)
        /\ result.urgency = "low"

\* a resolved clinical chest-xray result whose first pathology entry is named n
ChestResultWithTop(n) ==
    /\ Resolved
    /\ ClinicalProfile
    /\ result.imageType = "chest-xray"
    /\ Len(analyses.pathology.topPathologies) > 0
    /\ analyses.pathology.topPathologies[1][1] = n

\* C24: urgency high is reached for both pathologies determineChestXrayUrgency
\* lists for it: a chest-xray result whose top pathology is pneumonia, and one
\* whose top pathology is pleural_effusion, has urgency high
C24_ListedPathologiesHigh ==
    /\ ChestResultWithTop("pneumonia") => result.urgency = "high"
    /\ ChestResultWithTop("pleural_effusion") => result.urgency = "high"

\* C25: the indicator rules that write the same entry never fire together: the
\* pneumonia indicator excludes the atelectasis, pleural_effusion and
\* normal_chest indicators, so the consolidation score the pneumonia rule sets
\* (0.7) is never overwritten by the atelectasis rule (0.5), and consolidation
\* is 0.7 iff the pneumonia indicator holds
C25_PneumoniaExcludes ==
    Detected =>
        LET ind == analyses.visual.pathologyIndicators
            scores == analyses.pathology.pathologies
        IN  /\ ind.pneumonia =>
                   ~ind.atelectasis /\ ~ind.pleural_effusion /\ ~ind.normal_chest
            /\ scores.consolidation = 70 <=> ind.pneumonia
            /\ scores.consolidation = 50 <=> ind.atelectasis
            /\ ind.pneumonia => scores.pneumonia = 85 /\ scores.normal = 0

\* the pneumonia rule has fired and its consolidation score stands
C25_PneumoniaDetected ==
    /\ Detected
    /\ analyses.visual.pathologyIndicators.pneumonia
    /\ analyses.pathology.pathologies.consolidation = 70
    /\ Gt(analyses.visual.edgeDensity, 3, 10)
    /\ analyses.pathology.topPathologies[1] = <<"pneumonia", 85>>

\* handleFileUpload has started for a new file in this step
Uploaded == uploadedFile' # uploadedFile

\* handleFileUpload has ended in this step: for a PDF the step of the drop,
\* for an image the step that resumes it after the await
HandlerEnds ==
    \/ Uploaded /\ uploadedFile'.type = "pdf"
    \/ awaiting /\ ~awaiting'

\* C26: every call of handleFileUpload (image analysed, image analysis
\* rejected, or PDF) eventually ends, given that the image load settles, with
\* isAnalyzing false and diagnosisData set; when the analysis rejected,
\* diagnosisData is the fallback record with confidence 0 and urgency low; and
\* isAnalyzing is true only while the handler has not finished
C26_UploadCompletes ==
    /\ awaiting ~> (~awaiting /\ ~isAnalyzing /\ diagnosisData # None)
    /\ [][HandlerEnds => (~isAnalyzing' /\ diagnosisData' # None)]_vars
    /\ [][(awaiting /\ ~awaiting' /\ pc = "rejected") =>
              /\ diagnosisData' = FallbackDiagnosis
              /\ diagnosisData'.confidence = 0
              /\ diagnosisData'.urgency = "low"]_vars
    /\ [][(awaiting /\ ~awaiting' /\ pc = "resolved") => diagnosisData' = result]_vars
    /\ [](isAnalyzing => awaiting)

\* the handler has ended after a rejected analysis of the second file
C26_RejectionHandled ==
    /\ uploadedFile # None
    /\ uploadedFile.preview = 2
    /\ uploadedFile.type = "image"
    /\ ~awaiting
    /\ pc = "rejected"
    /\ ~isAnalyzing
    /\ diagnosisData = FallbackDiagnosis

\* the records handleFileUpload can set for the uploaded file u: for a PDF the
\* report record, for an image the result of the clinical pipeline on its
\* pixels or the fallback record
DiagnosesOf(u) ==
    IF u.type = "pdf" THEN {generateClinicalPDFDiagnosis(u.file.name)}
    ELSE { FallbackDiagnosis,
           performClinicalImageAnalysis(u.file.pixels, u.file.name,
                                        u.file.width, u.file.height).result }

\* C27: uploads are serialized and previous data is cleared: no upload starts
\* while isAnalyzing is true; diagnosisData is null for the whole time an image
\* analysis is in flight; and a diagnosisData that is not null was computed
\* from the file held in uploadedFile
C27_UploadsSerialized ==
    /\ [][Uploaded => ~isAnalyzing]_vars
    /\ [](awaiting => (isAnalyzing /\ diagnosisData = None /\ uploadedFile # None
                         /\ uploadedFile.file.name = filename))
    /\ [](diagnosisData # None =>
              (uploadedFile # None /\ diagnosisData \in DiagnosesOf(uploadedFile)))

\* the third upload, an image, has been analysed
C27_ThirdUploadAnalysed ==
    /\ uploadedFile # None
    /\ uploadedFile.preview = 3
    /\ uploadedFile.type = "image"
    /\ ~awaiting
    /\ diagnosisData # None
    /\ diagnosisData = result

\* C28: whenever a new file is uploaded the chat is cleared: after every
\* upload, also of a file with the name of the previous one, the message list
\* is the greeting alone (for a PDF, whose analysis ends in the same step, the
\* greeting and the context message of that PDF), so that no message of the
\* previous file's conversation remains
C28_UploadClearsChat ==
    [][Uploaded =>
          \/ messages' = <<Greeting>>
          \/ /\ diagnosisData' # None
             /\ messages' = <<Greeting, ContextMessage(diagnosisData')>>]_vars

\* the number of 'Clinical Analysis Complete' messages in a message list
ContextCount(list) == Len(SelectSeq(list, LAMBDA m : m.kind = "context"))

\* C29: the context message is appended exactly once for each analysis that
\* completes with confidence > 0, also when the analysis before it reported the
\* same confidence, behind the greeting of that file's chat; it is not appended
\* for a failed analysis (confidence 0), nor by any other step
C29_ContextOncePerAnalysis ==
    [][IF HandlerEnds
       THEN IF diagnosisData'.confidence > 0
            THEN /\ messages'[1] = Greeting
                 /\ \/ messages' = Append(messages, ContextMessage(diagnosisData'))
                    \/ messages' = <<Greeting, ContextMessage(diagnosisData')>>
            ELSE ContextCount(messages') = ContextCount(messages)
       ELSE ContextCount(messages') <= ContextCount(messages)]_vars

\* the messages sent by the user and the responses, without greeting and
\* context message
Dialogue(list) == SelectSeq(list, LAMBDA m : m.kind \in {"user", "response"})

\* C30: at most one AI response is pending at any time: no user message is
\* sent while isTyping is true, by the send button or by the Enter key;
\* isTyping is true exactly while a response timer is outstanding; and user
\* messages and responses alternate in the order of sending
C30_OneResponsePending ==
    /\ [][(sent' # sent) => ~isTyping]_vars
    /\ [](Cardinality(timers) <= 1)
    /\ [](isTyping <=> timers # {})
    /\ [](\A i \in 1..Len(Dialogue(messages)) :
              Dialogue(messages)[i].kind = (IF i % 2 = 1 THEN "user" ELSE "response"))

=============================================================================
